---- MODULE Spec2Model ----
(***************************************************************************)
(* HCMM-frontend: the HTTP request pipeline (retryInterceptor,             *)
(* authInterceptor), AuthService and StorageService.                       *)
(*                                                                         *)
(* JavaScript runs one handler at a time: every action below is one        *)
(* handler (a call made by the application, the arrival of a response, a   *)
(* timer firing) together with every call it makes synchronously.          *)
(***************************************************************************)
EXTENDS Integers, Sequences, FiniteSets, TLC

VARIABLES
    \* ---- retryInterceptor: one logical request ----
    rReq,        \* the HttpRequest handed to retryInterceptor: [method, skipRetry]
    rPc,         \* "idle" | "inflight" | "backoff" | "done"
    attempt,     \* the closure variable `attempt` of retryInterceptor
    rTimer,      \* ms left on the pending timer(delayMs); -1 when none is pending
    rInflight,   \* number of next(req) calls whose response is outstanding
    rLatency,    \* clock ticks the outstanding attempt has been waiting
    now,         \* clock, in ms
    rLog,        \* history: the attempts, failures and timers, in order
    rOutcomes,   \* what the subscriber of retryInterceptor received, in order
    \* ---- authInterceptor, AuthService, StorageService ----
    authSvc,     \* which AuthService source is running
    authIcp,     \* which authInterceptor source is running
    storage,     \* localStorage: [access, refresh, user] (StorageService keys)
    currentUser, \* AuthService.currentUser signal
    isAuthenticated, \* AuthService.isAuthenticated signal
    reqs,        \* every request that entered the pipeline, with its progress
    navs,        \* targets of the router.navigate calls, in order
    logoutLog,   \* one entry per logout() invocation
    isLoading,   \* AuthService.isLoading signal
    \* ---- the interceptor chain around one logical request ----
    chain,       \* the interceptors registered, outermost first
    cReq,        \* what errorInterceptor reads of the request: [url, noToast]
    cPass,       \* number of times the request has entered retryInterceptor
    cDeferred,   \* the setTimeout(..., 100) callbacks not yet run, in order
    routerUrl,   \* Router.url
    \* ---- one call of a function of the request or of the route ----
    call,        \* the function called, its arguments and the state it reads
    ret          \* what the call returned and did, once it has run

rvars == <<rReq, rPc, attempt, rTimer, rInflight, rLatency, now, rLog, rOutcomes>>

cvars == <<chain, cReq, cPass, cDeferred, routerUrl>>

pvars == <<call, ret>>

avars == <<authSvc, authIcp, storage, currentUser, isAuthenticated, reqs, navs,
           logoutLog, isLoading, cvars, pvars>>

vars == <<rReq, rPc, attempt, rTimer, rInflight, rLatency, now, rLog, rOutcomes,
          authSvc, authIcp, storage, currentUser, isAuthenticated, reqs, navs,
          logoutLog, isLoading, chain, cReq, cPass, cDeferred, routerUrl,
          call, ret>>

-----------------------------------------------------------------------------
(* Bounds of the model *)

\* most clock ticks a response may take to arrive
MaxLatency == 1
\* most requests that enter the pipeline in one behaviour
MaxReqs == 3
\* most requests the application itself issues in one behaviour
MaxUserReqs == 1
\* most logout() calls the application itself makes in one behaviour
MaxUserLogouts == 1
\* login() / register() calls the application makes
MaxAuthCalls == 2
\* requests and navigations after which the application makes no further call
\* in one behaviour of the session
MaxSessionCalls == 2

-----------------------------------------------------------------------------
(* Values *)

Methods == {"GET", "POST", "PUT", "PATCH", "DELETE"}

\* failure statuses the network may answer with; 0 is "no response received"
ErrStatuses == {0, 400, 401, 404, 500, 503}

RECURSIVE Pow2(_)
Pow2(n) == IF n = 0 THEN 1 ELSE 2 * Pow2(n - 1)

-----------------------------------------------------------------------------
(* retryInterceptor, error.interceptor.ts *)

maxRetries == 3
initialDelay == 1000

RetryBypass_methodOnly(req) == req.method # "GET"

\* line 139-140: the requests that bypass the retry logic
RetryBypass(req) == req.method # "GET" \/ req.skipRetry

\* line 150-153
shouldRetry(att, status) ==
    LET retryAttempt == att + 1
    IN  retryAttempt <= maxRetries /\ (status = 0 \/ status >= 500)

delayMs_linear(att) ==
    LET retryAttempt == att + 1
    IN  retryAttempt * initialDelay

\* line 161
delayMs(att) ==
    LET retryAttempt == att + 1
    IN  Pow2(retryAttempt - 1) * initialDelay

\* clock resolution: one base delay
TickMs == initialDelay

Ev(ev, status) == [ev |-> ev, status |-> status, at |-> now]

RetryInit ==
    /\ rReq \in [method : Methods, skipRetry : BOOLEAN]
    /\ rPc = "idle"
    /\ attempt = 0
    /\ rTimer = -1
    /\ rInflight = 0
    /\ rLatency = 0
    /\ now = 0
    /\ rLog = <<>>
    /\ rOutcomes = <<>>

\* The caller subscribes: lines 139-146 and the first handleRequest() of line 168,
\* or the pass-through next(req) of lines 139-140.
RetrySubscribe ==
    /\ rPc = "idle"
    /\ rPc' = "inflight"
    /\ rInflight' = rInflight + 1
    /\ rLatency' = 0
    /\ rLog' = Append(rLog, Ev("send", 0))
    /\ UNCHANGED <<rReq, attempt, rTimer, now, rOutcomes>>
    /\ UNCHANGED avars

\* next(req) emits the response: it reaches the subscriber as it is.
RetryRespondOk ==
    /\ rPc = "inflight"
    /\ rInflight' = rInflight - 1
    /\ rLog' = Append(rLog, Ev("ok", 200))
    /\ rOutcomes' = Append(rOutcomes, [kind |-> "success", status |-> 200])
    /\ rPc' = "done"
    /\ UNCHANGED <<rReq, attempt, rTimer, rLatency, now>>
    /\ UNCHANGED avars

RetryRespondErr_emitEach(status) ==
    /\ rPc = "inflight"
    /\ rInflight' = rInflight - 1
    /\ rOutcomes' = Append(rOutcomes, [kind |-> "error", status |-> status])
    /\ IF ~RetryBypass(rReq) /\ shouldRetry(attempt, status)
         THEN /\ attempt' = attempt + 1
              /\ rTimer' = delayMs(attempt)
              /\ rLog' = rLog \o <<Ev("fail", status), Ev("timer", delayMs(attempt))>>
              /\ rPc' = "backoff"
         ELSE /\ rLog' = Append(rLog, Ev("fail", status))
              /\ rPc' = "done"
              /\ UNCHANGED <<attempt, rTimer>>
    /\ UNCHANGED <<rReq, rLatency, now>>
    /\ UNCHANGED avars

\* next(req) errors with an HttpErrorResponse of this status: the catchError of
\* lines 149-165, or no handler at all for a request that bypasses retry.
RetryRespondErr(status) ==
    /\ rPc = "inflight"
    /\ rInflight' = rInflight - 1
    /\ IF ~RetryBypass(rReq) /\ shouldRetry(attempt, status)
         THEN /\ attempt' = attempt + 1
              /\ rTimer' = delayMs(attempt)
              /\ rLog' = rLog \o <<Ev("fail", status), Ev("timer", delayMs(attempt))>>
              /\ rPc' = "backoff"
              /\ UNCHANGED rOutcomes
         ELSE /\ rOutcomes' = Append(rOutcomes, [kind |-> "error", status |-> status])
              /\ rLog' = Append(rLog, Ev("fail", status))
              /\ rPc' = "done"
              /\ UNCHANGED <<attempt, rTimer>>
    /\ UNCHANGED <<rReq, rLatency, now>>
    /\ UNCHANGED avars

\* Time passes while a timer is pending or a response is outstanding.
RetryTick ==
    /\ \/ rPc = "backoff" /\ rTimer > 0
       \/ rPc = "inflight" /\ rLatency < MaxLatency
    /\ now' = now + TickMs
    /\ rTimer' = IF rPc = "backoff" THEN rTimer - TickMs ELSE rTimer
    /\ rLatency' = IF rPc = "inflight" THEN rLatency + 1 ELSE rLatency
    /\ UNCHANGED <<rReq, rPc, attempt, rInflight, rLog, rOutcomes>>
    /\ UNCHANGED avars

\* timer(delayMs) fires: mergeMap(() => handleRequest()), line 164.
RetryTimerFire ==
    /\ rPc = "backoff"
    /\ rTimer = 0
    /\ rTimer' = -1
    /\ rPc' = "inflight"
    /\ rInflight' = rInflight + 1
    /\ rLatency' = 0
    /\ rLog' = Append(rLog, Ev("send", 0))
    /\ UNCHANGED <<rReq, attempt, now, rOutcomes>>
    /\ UNCHANGED avars

RetryNext ==
    \/ RetrySubscribe
    \/ RetryRespondOk
    \/ \E status \in ErrStatuses : RetryRespondErr(status)
    \/ RetryTick
    \/ RetryTimerFire

-----------------------------------------------------------------------------
(* Values of the authentication part *)

\* JavaScript null
NULL == "NULL"
\* JavaScript truthiness of a string-or-null
Truthy(x) == x # NULL /\ x # ""

\* A URL is the sequence of its pieces; the pieces are cut so that a substring
\* search over characters and a subsequence search over pieces agree on every
\* URL and pattern below.
Includes(url, pat) ==
    \E i \in 1..(Len(url) - Len(pat) + 1) : SubSeq(url, i, i + Len(pat) - 1) = pat

\* AuthService.apiUrl
apiUrl == <<"https://localhost:8000", "/api">>
LoginUrl    == apiUrl \o <<"/login">>
RegisterUrl == apiUrl \o <<"/register">>
RefreshUrl  == apiUrl \o <<"/refresh", "-token">>
ForgotUrl   == apiUrl \o <<"/forgot-password">>
LogoutUrl   == apiUrl \o <<"/logout">>
ProfileUrl  == apiUrl \o <<"/profile">>

\* URLs the application requests through HttpClient
UserUrls ==
    { ProfileUrl, LoginUrl, <<"/auth", "/login">>, <<"/auth", "/refresh">> }

\* failure statuses the network answers with in the authentication part
AuthErrStatuses == {401, 403}

EmptyStore == [access |-> NULL, refresh |-> NULL, user |-> NULL]

\* What a request settles with: a response, or an error. status -1 is the
\* undefined status of a plain Error.
NoRes == [kind |-> "none", status |-> -1, msg |-> "", access |-> NULL, refresh |-> NULL,
          user |-> NULL]
\* an AuthResponse: accessToken, refreshToken, user
AuthRes(access, refresh, user) ==
    [kind |-> "ok", status |-> 200, msg |-> "", access |-> access, refresh |-> refresh,
     user |-> user]
OkRes(access, refresh) == AuthRes(access, refresh, NULL)
HttpErr(status) ==
    [kind |-> "err", status |-> status, msg |-> "Http failure response",
     access |-> NULL, refresh |-> NULL, user |-> NULL]
JsErr(msg) ==
    [kind |-> "err", status |-> -1, msg |-> msg, access |-> NULL, refresh |-> NULL,
     user |-> NULL]

TokenRefreshFailed == "Token refresh failed"
NoRefreshToken == "No refresh token available"

\* The state the handlers read and write, passed through the synchronous calls.
W == [st |-> storage, cu |-> currentUser, ia |-> isAuthenticated,
      reqs |-> reqs, navs |-> navs, ll |-> logoutLog, il |-> isLoading]

\* What an observer sees of the state at one point of a handler: the Session
\* Store, the signals, the navigations and logout() calls made so far, and the
\* number of requests that have entered the pipeline.
Snap(w) == [st |-> w.st, cu |-> w.cu, ia |-> w.ia, il |-> w.il, navs |-> w.navs,
            nll |-> Len(w.ll), nreq |-> Len(w.reqs)]
NoSnap == [st |-> EmptyStore, cu |-> NULL, ia |-> FALSE, il |-> FALSE, navs |-> <<>>,
           nll |-> -1, nreq |-> -1]

-----------------------------------------------------------------------------
(* authInterceptor: entry, auth.interceptor.ts lines 12-36 *)

skipAuth_refreshOnly(url) == Includes(url, <<"/auth", "/refresh">>)

\* lines 16-20
skipAuth(url) ==
    \/ Includes(url, <<"/auth", "/login">>)
    \/ Includes(url, <<"/auth", "/register">>)
    \/ Includes(url, <<"/auth", "/refresh">>)
    \/ Includes(url, <<"/auth", "/forgot-password">>)

\* lines 12-36: the request enters authInterceptor and next(authReq) puts it on
\* the network; the catchError of line 37 waits for the answer.
authInterceptor(w, kind, url, body, parent) ==
    LET token == w.st.access
        skip  == skipAuth(url)
    IN  [w EXCEPT !.reqs = Append(@,
           [kind |-> kind, url |-> url, parent |-> parent, pc |-> "first",
            skip |-> skip,
            auth1 |-> IF ~skip /\ Truthy(token) THEN token ELSE NULL,
            auth2 |-> NULL, body |-> body, stAtSend |-> w.st,
            res1 |-> -1, res2 |-> NoRes, refreshRes |-> "none",
            nRefresh |-> 0, nReissue |-> 0, nLogout |-> 0, nDelivered |-> 0,
            rfCall |-> NoSnap, rfPre |-> NoSnap, rfAt |-> NoSnap, rfRes |-> NoRes,
            cCall |-> NoSnap, cPre |-> NoSnap, cAt |-> NoSnap, cPost |-> NoSnap,
            cOut |-> NoRes,
            result |-> NoRes])]

\* Every request of HttpClient passes through the interceptor chain, of which
\* authInterceptor is the outermost stage.
HttpClientRequest(w, kind, url, body, parent) ==
    authInterceptor(w, kind, url, body, parent)

-----------------------------------------------------------------------------
(* AuthService *)

clearAuthData_storageOnly(w) == [w EXCEPT !.st = EmptyStore]

\* lines 110-113, with StorageService.clear (storage.service.ts 48-51) and
\* setCurrentUser (lines 48-52)
clearAuthData(w) == [w EXCEPT !.st = EmptyStore, !.cu = NULL, !.ia = FALSE]

\* a logout() invocation counts for the request whose handling made it and for
\* the requests that are waiting for that one
RECURSIVE CountLogout(_, _)
CountLogout(w, f) ==
    IF f = 0 THEN w
    ELSE CountLogout([w EXCEPT !.reqs[f].nLogout = @ + 1], w.reqs[f].parent)

LogoutEntry(w, rt, posted, cause) ==
    [rt |-> rt, posted |-> posted, cause |-> cause,
     st |-> w.st, cu |-> w.cu, ia |-> w.ia]

\* auth.service.ts lines 127-136: the /logout request is subscribed, and so
\* enters the pipeline, before clearAuthData() runs
logout(w, cause) ==
    LET rt == w.st.refresh
        w1 == IF Truthy(rt)
                THEN HttpClientRequest(w, "logout", LogoutUrl, rt, 0)
                ELSE w
        w2 == clearAuthData(w1)
        w3 == [w2 EXCEPT !.navs = Append(@, "/login")]
        w4 == CountLogout(w3, cause)
    IN  [w4 EXCEPT !.ll = Append(@, LogoutEntry(w4, rt, Truthy(rt), cause))]

\* part_002 lines 127-142: clearAuthData() first, then the /logout request
logout_part002(w, cause) ==
    LET rt == w.st.refresh
        w1 == clearAuthData(w)
        w2 == IF Truthy(rt)
                THEN HttpClientRequest(w1, "logout", LogoutUrl, rt, 0)
                ELSE w1
        w3 == [w2 EXCEPT !.navs = Append(@, "/login")]
        w4 == CountLogout(w3, cause)
    IN  [w4 EXCEPT !.ll = Append(@, LogoutEntry(w4, rt, Truthy(rt), cause))]

AuthServiceLogout(w, cause) ==
    IF authSvc = "auth.service.ts" THEN logout(w, cause) ELSE logout_part002(w, cause)

-----------------------------------------------------------------------------
(* AuthService.login and AuthService.register *)

\* UserRole (part_001 lines 1-6)
UserRoles == {"customer", "cook", "delivery_guy", "admin"}

\* The users the server answers a login or registration with. A user is named
\* by its role; "guest" is a role outside UserRole.
AuthUsers == UserRoles \cup {"guest"}
role(user) == user
\* the users the server answers with in the behaviours explored
AnsweredUsers == {"delivery_guy", "guest"}

\* lines 86-91: the lookup roleRoutes[role], undefined for a role not in it
roleRoutes(r) ==
    CASE r = "customer"     -> "/customer/dashboard"
      [] r = "delivery_guy" -> "/delivery/dashboard"
      [] r = "admin"        -> "/admin/dashboard"
      [] r = "cook"         -> "/cook/dashboard"
      [] OTHER              -> NULL

navigateToRoleDashboard_noFallback(w, r) ==
    [w EXCEPT !.navs = Append(@, roleRoutes(r))]

\* lines 85-93
navigateToRoleDashboard(w, r) ==
    [w EXCEPT !.navs = Append(@, IF Truthy(roleRoutes(r)) THEN roleRoutes(r) ELSE "/")]

\* lines 48-52
setCurrentUser(w, user) == [w EXCEPT !.cu = user, !.ia = Truthy(user)]

\* lines 76-83
handleAuthSuccess(w, res) ==
    LET w1 == [w EXCEPT !.st = [access |-> res.access, refresh |-> res.refresh,
                                user |-> res.user]]
    IN  navigateToRoleDashboard(setCurrentUser(w1, res.user), role(res.user))

\* the message handleError builds from an error without a body message:
\* `Error Code: ${error.status}\nMessage ${error.message}` (lines 101-103)
ErrorCodeMessage(res) ==
    CASE res.status = 401 -> "Error Code: 401 Message Http failure response"
      [] res.status = 403 -> "Error Code: 403 Message Http failure response"
      [] res.msg = TokenRefreshFailed ->
            "Error Code: undefined Message Token refresh failed"
      [] OTHER -> "Error Code: undefined Message No refresh token available"

\* lines 95-108: a new Error carrying the message
handleError(res) == JsErr(ErrorCodeMessage(res))

\* the outcome out reaches the subscriber of login() / register()
Deliver(w, f, out) == [w EXCEPT !.reqs[f].cAt = Snap(w), !.reqs[f].cOut = out]

\* auth.service.ts lines 120-124 (register: 143-147):
\* tap(handleAuthSuccess), catchError(handleError), tap(isLoading.set(false))
authPipe(w, f, res) ==
    IF res.kind = "ok"
      THEN Deliver([handleAuthSuccess(w, res) EXCEPT !.il = FALSE], f, res)
      ELSE Deliver(w, f, handleError(res))

\* part_002 lines 120-124 (register: 149-153):
\* tap(handleAuthSuccess), catchError(handleError), finalize(isLoading.set(false));
\* the finalize callback runs after the subscriber has been notified
authPipe_part002(w, f, res) ==
    LET w1 == IF res.kind = "ok"
                THEN Deliver(handleAuthSuccess(w, res), f, res)
                ELSE Deliver(w, f, handleError(res))
    IN  [w1 EXCEPT !.il = FALSE]

\* The request of login() / register() settles with res.
AuthCallSettled(w, f, res) ==
    LET w1 == [w EXCEPT !.reqs[f].cPre = Snap(w)]
        w2 == IF authSvc = "auth.service.ts"
                THEN authPipe(w1, f, res) ELSE authPipe_part002(w1, f, res)
    IN  [w2 EXCEPT !.reqs[f].cPost = Snap(w2)]

\* lines 115-119 (register: 138-142): the busy flag is set, then the request
\* is sent when the caller subscribes
AuthCall(w, kind, url) ==
    LET w1 == HttpClientRequest([w EXCEPT !.il = TRUE], kind, url, "credentials", 0)
    IN  [w1 EXCEPT !.reqs[Len(w1.reqs)].cCall = Snap(w)]

login(w) == AuthCall(w, "login", LoginUrl)
register(w) == AuthCall(w, "register", RegisterUrl)

-----------------------------------------------------------------------------
(* AuthService: construction, profile, mock login *)

\* A token string, by what decodeToken makes of it: the number of segments
\* split('.') gives, whether the second one is base64 that atob and
\* decodeURIComponent accept, what JSON.parse makes of the result ("object",
\* "null" or "invalid"), and the exp of the object, when it has one.
TokenShape(segments, base64, json, hasExp, exp) ==
    [segments |-> segments, base64 |-> base64, json |-> json, hasExp |-> hasExp,
     exp |-> exp]

\* lines 64-74: the payload, or the exception thrown (threw)
decodeToken(token) ==
    IF token.segments < 2 \/ ~token.base64 \/ token.json = "invalid"
      THEN [threw |-> TRUE, isNull |-> FALSE, hasExp |-> FALSE, exp |-> 0]
      ELSE [threw |-> FALSE, isNull |-> token.json = "null",
            hasExp |-> token.json = "object" /\ token.hasExp, exp |-> token.exp]

isTokenValidAt_notBefore(token, ms) ==
    LET payload == decodeToken(token)
    IN  IF payload.threw \/ payload.isNull THEN FALSE
        ELSE payload.hasExp /\ payload.exp >= ms \div 1000

\* lines 54-62, with Date.now() = ms: reading exp of null throws, and the
\* catch returns false; an exp that is missing compares as false
isTokenValidAt(token, ms) ==
    LET payload == decodeToken(token)
        currentTime == ms \div 1000
    IN  IF payload.threw \/ payload.isNull THEN FALSE
        ELSE payload.hasExp /\ payload.exp > currentTime

\* the tokens of the Session Store: "expired" is a JWT whose exp has passed,
\* "mock_jwt_token" the text of mockLogin, without a '.', the others are JWTs
\* that expire after every behaviour ends
Jwt(token) ==
    CASE token = "expired"        -> TokenShape(3, TRUE, "object", TRUE, 0)
      [] token = "mock_jwt_token" -> TokenShape(1, FALSE, "invalid", FALSE, 0)
      [] OTHER                    -> TokenShape(3, TRUE, "object", TRUE, 86400)

\* lines 54-62, at the time of the call
isTokenValid(token) == isTokenValidAt(Jwt(token), now)

loadStoredUser_keepStore(w) ==
    IF Truthy(w.st.access) /\ Truthy(w.st.user) /\ isTokenValid(w.st.access)
      THEN setCurrentUser(w, w.st.user)
      ELSE setCurrentUser(w, NULL)

\* lines 37-46, run by the constructor on what localStorage holds
loadStoredUser(w) ==
    IF Truthy(w.st.access) /\ Truthy(w.st.user) /\ isTokenValid(w.st.access)
      THEN setCurrentUser(w, w.st.user)
      ELSE clearAuthData(w)

\* a User as the body of a response
UserRes(user) == AuthRes(NULL, NULL, user)

profileTap_signalOnly(w, res) == setCurrentUser(w, res.user)

\* lines 179-182 (updateProfile: 189-192): setCurrentUser(user), storage.setUser(user)
profileTap(w, res) == [setCurrentUser(w, res.user) EXCEPT !.st.user = res.user]

\* lines 178-184 (updateProfile: 188-194): tap, catchError(handleError)
profilePipe(w, f, res) ==
    IF res.kind = "ok"
      THEN Deliver(profileTap(w, res), f, res)
      ELSE Deliver(w, f, handleError(res))

\* The request of getCurrentUserProfile() / updateProfile() settles with res.
ProfileSettled(w, f, res) ==
    LET w1 == profilePipe([w EXCEPT !.reqs[f].cPre = Snap(w)], f, res)
    IN  [w1 EXCEPT !.reqs[f].cPost = Snap(w1)]

\* lines 177-178
getCurrentUserProfile(w) == HttpClientRequest(w, "getProfile", ProfileUrl, NULL, 0)
\* lines 187-188
updateProfile(w) == HttpClientRequest(w, "updateProfile", ProfileUrl, "userData", 0)

\* part_002 lines 364-384
mockLogin(w, user) ==
    LET w1 == [w EXCEPT !.st = [access |-> "mock_jwt_token",
                                refresh |-> "mock_refresh_token", user |-> user]]
    IN  navigateToRoleDashboard(setCurrentUser(w1, user), role(user))

-----------------------------------------------------------------------------
(* authInterceptor: the 401 branch, and AuthService.refreshToken *)

RECURSIVE Settle(_, _, _), RefreshSettled(_, _, _)

switchMapRefresh_oldToken(w, p, res) ==
    LET newToken == w.st.access
    IN  IF res.kind = "ok"
          THEN IF ~Truthy(newToken)
                 THEN Settle(AuthServiceLogout(w, p), p, JsErr(TokenRefreshFailed))
                 ELSE [w EXCEPT !.reqs[p].pc = "second",
                                !.reqs[p].auth2 = w.reqs[p].auth1,
                                !.reqs[p].nReissue = @ + 1]
          ELSE Settle(IF res.msg # TokenRefreshFailed
                        THEN AuthServiceLogout(w, p) ELSE w, p, res)

\* auth.interceptor.ts lines 43-68: switchMap and catchError applied to what
\* refreshToken() settled with, for the request p that called it
switchMapRefresh(w, p, res) ==
    LET newToken == w.st.access
    IN  IF res.kind = "ok"
          THEN IF ~Truthy(newToken)
                 \* lines 47-51, then catchError sees 'Token refresh failed'
                 THEN Settle(AuthServiceLogout(w, p), p, JsErr(TokenRefreshFailed))
                 \* lines 53-59
                 ELSE [w EXCEPT !.reqs[p].pc = "second",
                                !.reqs[p].auth2 = newToken,
                                !.reqs[p].nReissue = @ + 1]
          \* lines 61-67
          ELSE Settle(IF res.msg # TokenRefreshFailed
                        THEN AuthServiceLogout(w, p) ELSE w, p, res)

\* part_004 lines 48-74: the catchError logs out whatever the error
handleTokenRefresh(w, p, res) ==
    LET newToken == w.st.access
    IN  IF res.kind = "ok"
          THEN IF Truthy(newToken)
                 THEN [w EXCEPT !.reqs[p].pc = "second",
                                !.reqs[p].auth2 = newToken,
                                !.reqs[p].nReissue = @ + 1]
                 ELSE Settle(AuthServiceLogout(AuthServiceLogout(w, p), p), p,
                             JsErr(TokenRefreshFailed))
          ELSE Settle(AuthServiceLogout(w, p), p, res)

\* refreshToken() delivers res to its subscriber, the 401 branch of request p
RefreshSettled(w, p, res) ==
    LET w1 == [w EXCEPT !.reqs[p].refreshRes = res.kind,
                        !.reqs[p].rfAt = Snap(w),
                        !.reqs[p].rfRes = res]
    IN  IF authIcp = "auth.interceptor.ts"
          THEN switchMapRefresh(w1, p, res)
          ELSE handleTokenRefresh(w1, p, res)

ReissueSettled_refreshAgain(w, p, res) ==
    IF res.kind = "ok" THEN Settle(w, p, res)
    ELSE IF res.status = 401 /\ Truthy(w.st.refresh)
           THEN HttpClientRequest(
                  [w EXCEPT !.reqs[p].nRefresh = @ + 1, !.reqs[p].pc = "refreshing"],
                  "refresh", RefreshUrl, w.st.refresh, p)
           ELSE Settle(AuthServiceLogout(w, p), p, res)

\* The re-issued request next(retryReq) settles: it is inside the switchMap, so
\* its error passes the catchError of lines 61-67 (part_004 lines 69-72).
ReissueSettled(w, p, res) ==
    IF res.kind = "ok" THEN Settle(w, p, res)
    ELSE IF authIcp = "auth.interceptor.ts"
           THEN Settle(IF res.msg # TokenRefreshFailed
                         THEN AuthServiceLogout(w, p) ELSE w, p, res)
           ELSE Settle(AuthServiceLogout(w, p), p, res)

tapRefresh_overwriteBoth(w, res) ==
    [w EXCEPT !.st.access = res.access, !.st.refresh = res.refresh]

\* auth.service.ts lines 164-169: the tap of refreshToken()
tapRefresh(w, res) ==
    [w EXCEPT !.st.access = res.access,
              !.st.refresh = IF Truthy(res.refresh) THEN res.refresh ELSE @]

refreshTokenPipe_noLogout(w, p, res) ==
    LET w1 == [w EXCEPT !.reqs[p].rfPre = Snap(w)]
    IN  IF res.kind = "ok"
          THEN RefreshSettled(tapRefresh(w1, res), p, res)
          ELSE RefreshSettled(w1, p, res)

\* auth.service.ts lines 163-174: tap and catchError of refreshToken()
refreshTokenPipe(w, p, res) ==
    LET w1 == [w EXCEPT !.reqs[p].rfPre = Snap(w)]
    IN  IF res.kind = "ok"
          THEN RefreshSettled(tapRefresh(w1, res), p, res)
          ELSE RefreshSettled(AuthServiceLogout(w1, p), p, res)

\* The request f delivers its outcome to its subscriber: the application, the
\* error logger of logout(), or the pipe of refreshToken().
Settle(w, f, res) ==
    LET w1 == [w EXCEPT !.reqs[f].pc = "done",
                        !.reqs[f].result = res,
                        !.reqs[f].nDelivered = @ + 1]
    IN  IF w.reqs[f].kind = "refresh"
          THEN refreshTokenPipe(w1, w.reqs[f].parent, res)
          ELSE IF w.reqs[f].kind \in {"login", "register"}
                 THEN AuthCallSettled(w1, f, res)
          ELSE IF w.reqs[f].kind \in {"getProfile", "updateProfile"}
                 THEN ProfileSettled(w1, f, res)
                 ELSE w1

refreshToken_postAnyway(w, p) ==
    LET rt == w.st.refresh
        w1 == [w EXCEPT !.reqs[p].nRefresh = @ + 1, !.reqs[p].pc = "refreshing",
                        !.reqs[p].rfCall = Snap(w)]
    IN  HttpClientRequest(w1, "refresh", RefreshUrl, rt, p)

\* auth.service.ts lines 154-162
refreshToken(w, p) ==
    LET rt == w.st.refresh
        w1 == [w EXCEPT !.reqs[p].nRefresh = @ + 1, !.reqs[p].pc = "refreshing",
                        !.reqs[p].rfCall = Snap(w)]
    IN  IF ~Truthy(rt)
          THEN RefreshSettled(w1, p, JsErr(NoRefreshToken))
          ELSE HttpClientRequest(w1, "refresh", RefreshUrl, rt, p)

catchErrorFirst_anyAuthStatus(w, f, res) ==
    IF res.status \notin {401, 403} \/ Includes(w.reqs[f].url, <<"/auth", "/refresh">>)
      THEN Settle(w, f, res)
      ELSE refreshToken(w, f)

\* auth.interceptor.ts lines 37-43: catchError on the first attempt
catchErrorFirst(w, f, res) ==
    IF res.status # 401 \/ Includes(w.reqs[f].url, <<"/auth", "/refresh">>)
      THEN Settle(w, f, res)
      ELSE refreshToken(w, f)

-----------------------------------------------------------------------------
(* Actions of the authentication part *)

\* The handler has run to its end: w is the state it leaves. At most cap
\* requests enter the pipeline in a behaviour.
CommitWithin(w, cap) ==
    /\ Len(w.reqs) <= cap
    /\ storage' = w.st
    /\ currentUser' = w.cu
    /\ isAuthenticated' = w.ia
    /\ reqs' = w.reqs
    /\ navs' = w.navs
    /\ isLoading' = w.il
    /\ logoutLog' = w.ll
    /\ UNCHANGED <<authSvc, authIcp>>
    /\ UNCHANGED cvars
    /\ UNCHANGED rvars
    /\ UNCHANGED pvars

Commit(w) == CommitWithin(w, MaxReqs)

\* The state after AuthService is constructed (loadStoredUser, lines 37-46):
\* a restored session, or everything cleared.
AuthInit ==
    /\ authSvc \in {"auth.service.ts", "part_002"}
    /\ authIcp \in {"auth.interceptor.ts", "part_004"}
    /\ \/ /\ storage \in [access : {"t1"}, refresh : {"r1", NULL}, user : {"u1"}]
          /\ currentUser = "u1"
          /\ isAuthenticated = TRUE
       \/ /\ storage = EmptyStore
          /\ currentUser = NULL
          /\ isAuthenticated = FALSE
    /\ reqs = <<>>
    /\ navs = <<>>
    /\ logoutLog = <<>>
    /\ isLoading = FALSE

\* the interceptor chain at rest
\* no function of the request or of the route is being called on its own
NoCall == [fn |-> "none"]
NoRet == [done |-> FALSE]

CallIdle ==
    /\ call = NoCall
    /\ ret = NoRet

ChainIdle ==
    /\ chain = <<>>
    /\ cReq = [url |-> <<>>, noToast |-> FALSE]
    /\ cPass = 0
    /\ cDeferred = <<>>
    /\ routerUrl = "/"

\* the authentication part at rest, for the specifications that do not use it
AuthIdle ==
    /\ ChainIdle
    /\ CallIdle
    /\ authSvc = "auth.service.ts"
    /\ authIcp = "auth.interceptor.ts"
    /\ storage = EmptyStore
    /\ currentUser = NULL
    /\ isAuthenticated = FALSE
    /\ reqs = <<>>
    /\ navs = <<>>
    /\ logoutLog = <<>>
    /\ isLoading = FALSE

\* the retry part at rest
RetryIdle ==
    /\ rReq = [method |-> "GET", skipRetry |-> FALSE]
    /\ rPc = "done"
    /\ attempt = 0
    /\ rTimer = -1
    /\ rInflight = 0
    /\ rLatency = 0
    /\ now = 0
    /\ rLog = <<>>
    /\ rOutcomes = <<>>

UserReqs == {f \in 1..Len(reqs) : reqs[f].kind = "user"}
UserLogouts == {i \in 1..Len(logoutLog) : logoutLog[i].cause = 0}

\* The application issues a request through HttpClient.
Request(url) ==
    /\ Cardinality(UserReqs) < MaxUserReqs
    /\ Commit(HttpClientRequest(W, "user", url, NULL, 0))

\* The application calls AuthService.logout().
Logout ==
    /\ Cardinality(UserLogouts) < MaxUserLogouts
    /\ Commit(AuthServiceLogout(W, 0))

\* what the server may answer to the request f
Answers(f) ==
    {HttpErr(s) : s \in AuthErrStatuses} \cup
    (IF reqs[f].kind = "refresh"
       THEN {OkRes("t2", "r2"), OkRes("t2", NULL), OkRes("", NULL)}
       ELSE IF reqs[f].kind \in {"login", "register"}
              THEN {AuthRes("t3", "r3", u) : u \in AnsweredUsers}
              ELSE {OkRes(NULL, NULL)})

\* The answer to the first attempt of request f arrives.
RespondFirstWithin(f, res, cap) ==
    /\ reqs[f].pc = "first"
    /\ LET w1 == [W EXCEPT !.reqs[f].res1 = res.status]
       IN  CommitWithin(IF res.kind = "ok" \/ reqs[f].skip
                          THEN Settle(w1, f, res)
                          ELSE catchErrorFirst(w1, f, res), cap)

RespondFirst(f, res) == RespondFirstWithin(f, res, MaxReqs)

\* The answer to the re-issued request of f arrives.
RespondReissueWithin(f, res, cap) ==
    /\ reqs[f].pc = "second"
    /\ CommitWithin(ReissueSettled([W EXCEPT !.reqs[f].res2 = res], f, res), cap)

RespondReissue(f, res) == RespondReissueWithin(f, res, MaxReqs)

AuthNext ==
    \/ \E url \in UserUrls : Request(url)
    \/ Logout
    \/ \E f \in 1..Len(reqs) : \E res \in Answers(f) : RespondFirst(f, res)
    \/ \E f \in 1..Len(reqs) : \E res \in Answers(f) : RespondReissue(f, res)

AuthCalls == {f \in 1..Len(reqs) : reqs[f].kind \in {"login", "register"}}

\* The application calls AuthService.login(credentials) and subscribes.
Login ==
    /\ Cardinality(AuthCalls) < MaxAuthCalls
    /\ Commit(login(W))

\* The application calls AuthService.register(details) and subscribes.
Register ==
    /\ Cardinality(AuthCalls) < MaxAuthCalls
    /\ Commit(register(W))

LoginNext ==
    \/ Login
    \/ Register
    \/ \E f \in 1..Len(reqs) : \E res \in Answers(f) : RespondFirst(f, res)
    \/ \E f \in 1..Len(reqs) : \E res \in Answers(f) : RespondReissue(f, res)

\* The state after AuthService is constructed, as in AuthInit, with
\* auth.interceptor.ts registered.
InitLogin ==
    /\ authSvc \in {"auth.service.ts", "part_002"}
    /\ authIcp = "auth.interceptor.ts"
    /\ \/ /\ storage = [access |-> "t1", refresh |-> "r1", user |-> "u1"]
          /\ currentUser = "u1"
          /\ isAuthenticated = TRUE
       \/ /\ storage = EmptyStore
          /\ currentUser = NULL
          /\ isAuthenticated = FALSE
    /\ reqs = <<>>
    /\ navs = <<>>
    /\ logoutLog = <<>>
    /\ isLoading = FALSE
    /\ RetryIdle
    /\ ChainIdle
    /\ CallIdle

SpecLogin == InitLogin /\ [][LoginNext]_vars

\* what localStorage may hold when the application starts
StoredAtStart ==
    { [access |-> "t1", refresh |-> "r1", user |-> "u1"],
      [access |-> "expired", refresh |-> "r1", user |-> "u1"],
      [access |-> "t1", refresh |-> NULL, user |-> NULL],
      EmptyStore }

\* AuthService is constructed: loadStoredUser() has run.
InitSession ==
    /\ RetryIdle
    /\ authSvc \in {"auth.service.ts", "part_002"}
    /\ authIcp = "auth.interceptor.ts"
    /\ \E st \in StoredAtStart :
          LET w == loadStoredUser([st |-> st, cu |-> NULL, ia |-> FALSE])
          IN  /\ storage = w.st
              /\ currentUser = w.cu
              /\ isAuthenticated = w.ia
    /\ reqs = <<>>
    /\ navs = <<>>
    /\ logoutLog = <<>>
    /\ isLoading = FALSE
    /\ ChainIdle
    /\ CallIdle

\* The requests sent and the navigations made so far: every call of the
\* application adds to one of them.
SessionOps == Len(reqs) + Len(navs)

\* The application calls AuthService.login(credentials) and subscribes.
SessionLogin ==
    /\ SessionOps < MaxSessionCalls
    /\ Commit(login(W))

\* The application calls getCurrentUserProfile() and subscribes.
GetCurrentUserProfile ==
    /\ SessionOps < MaxSessionCalls
    /\ Commit(getCurrentUserProfile(W))

\* The application calls updateProfile(userData) and subscribes.
UpdateProfile ==
    /\ SessionOps < MaxSessionCalls
    /\ Commit(updateProfile(W))

\* The application calls mockLoginAsCustomer() or mockLoginAsCook() (part_002);
MockLogin(user) ==
    /\ authSvc = "part_002"
    /\ SessionOps < MaxSessionCalls
    /\ Commit(mockLogin(W, user))

\* The application calls AuthService.logout().
SessionLogout ==
    /\ SessionOps < MaxSessionCalls
    /\ Commit(AuthServiceLogout(W, 0))

\* What the backend answers in a session: a success of the frame's kind, or 401.
SessionAnswers(f) ==
    {HttpErr(401)} \cup
      (IF reqs[f].kind = "refresh" THEN {OkRes("t2", "r2")}
       ELSE IF reqs[f].kind = "login" THEN {AuthRes("t3", "r3", "delivery_guy")}
       ELSE IF reqs[f].kind \in {"getProfile", "updateProfile"} THEN {UserRes("admin")}
       ELSE {OkRes(NULL, NULL)})

SessionNext ==
    \/ SessionLogin
    \/ GetCurrentUserProfile
    \/ UpdateProfile
    \/ \E user \in {"customer", "cook"} : MockLogin(user)
    \/ SessionLogout
    \/ \E f \in 1..Len(reqs) : \E res \in SessionAnswers(f) : RespondFirst(f, res)
    \/ \E f \in 1..Len(reqs) : \E res \in SessionAnswers(f) : RespondReissue(f, res)

SpecSession == InitSession /\ [][SessionNext]_vars

-----------------------------------------------------------------------------
(* Requests that are in flight together *)

\* requests the application keeps in flight at the same time
MaxConcurrent == 2
\* each of them may bring one refresh-token request with it
MaxConcurrentFrames == 2 * MaxConcurrent

\* AuthService is constructed on a stored session; auth.interceptor.ts is
\* registered.
InitConcurrent ==
    /\ RetryIdle
    /\ authSvc \in {"auth.service.ts", "part_002"}
    /\ authIcp = "auth.interceptor.ts"
    /\ LET w == loadStoredUser([st |-> [access |-> "t1", refresh |-> "r1",
                                        user |-> "u1"],
                                cu |-> NULL, ia |-> FALSE])
       IN  /\ storage = w.st
           /\ currentUser = w.cu
           /\ isAuthenticated = w.ia
    /\ reqs = <<>>
    /\ navs = <<>>
    /\ logoutLog = <<>>
    /\ isLoading = FALSE
    /\ ChainIdle
    /\ CallIdle

\* The application issues a request to a URL that is not on the allow-list.
ConcurrentRequest ==
    /\ Cardinality(UserReqs) < MaxConcurrent
    /\ CommitWithin(HttpClientRequest(W, "user", ProfileUrl, NULL, 0),
                    MaxConcurrentFrames)

\* What the backend answers: 200, with new tokens to a refresh, or 401.
ConcurrentAnswers(f) ==
    {HttpErr(401)} \cup
      (IF reqs[f].kind = "refresh" THEN {OkRes("t2", "r2")} ELSE {OkRes(NULL, NULL)})

ConcurrentNext ==
    \/ ConcurrentRequest
    \/ \E f \in 1..Len(reqs) : \E res \in ConcurrentAnswers(f) :
          RespondFirstWithin(f, res, MaxConcurrentFrames)
    \/ \E f \in 1..Len(reqs) : \E res \in ConcurrentAnswers(f) :
          RespondReissueWithin(f, res, MaxConcurrentFrames)

SpecConcurrent == InitConcurrent /\ [][ConcurrentNext]_vars

-----------------------------------------------------------------------------
(* authInterceptor: the request it hands to next(), auth.interceptor.ts 12-36 *)

\* the headers a request of the application may carry; NULL when absent
HeaderNames == {"Authorization", "X-No-Toast", "Content-Type"}

\* `Bearer ${token}`
Bearer(token) == <<"Bearer", token>>

\* HttpRequest.clone({setHeaders: {name: value}}): a new request that differs
\* from req in that header only
cloneSetHeaders(req, name, value) == [req EXCEPT !.headers[name] = value]

authReq_newHeaders(req, token) ==
    IF Truthy(token)
      THEN [req EXCEPT !.headers =
              [h \in HeaderNames |-> IF h = "Authorization" THEN Bearer(token) ELSE NULL]]
      ELSE req

\* lines 26-34
authReq(req, token) ==
    IF Truthy(token)
      THEN cloneSetHeaders(req, "Authorization", Bearer(token))
      ELSE req

\* lines 16-36: the argument of next()
nextArg(req, token) == IF skipAuth(req.url) THEN req ELSE authReq(req, token)

-----------------------------------------------------------------------------
(* Route guards, guards/role/role.guard.ts *)

\* what a guard returns: true, or router.createUrlTree([path], {queryParams});
\* returnUrl is NULL when the tree has no query parameter
Allowed == [allow |-> TRUE, path |-> NULL, returnUrl |-> NULL]
createUrlTree(path, returnUrl) == [allow |-> FALSE, path |-> path, returnUrl |-> returnUrl]

\* currentUser()?.role; "norole" is a user whose role is missing
userRoleOf(cu) == IF cu \in {NULL, "norole"} THEN NULL ELSE role(cu)

\* auth.service.ts lines 218-220
hasRole(cu, r) == userRoleOf(cu) = r
\* auth.service.ts lines 222-225
hasAnyRole(cu, roles) == IF Truthy(userRoleOf(cu)) THEN userRoleOf(cu) \in roles ELSE FALSE
\* auth.service.ts lines 227-229
getUserRole(cu) == IF Truthy(userRoleOf(cu)) THEN userRoleOf(cu) ELSE NULL

\* lines 19-23, 45-49, 65-69, 85-89, 105-109
toLogin(url) == createUrlTree("/auth/login", url)

authGuard_noReturnUrl(ia, url) ==
    IF ia THEN Allowed ELSE createUrlTree("/auth/login", NULL)

\* lines 130-150
authGuard(ia, url) ==
    IF ia THEN Allowed ELSE createUrlTree("/auth/login", url)

roleGuard_rolesFirst(ia, cu, data, url) ==
    IF ~data.hasRoles \/ data.roles = {} THEN Allowed
    ELSE IF ~ia THEN toLogin(url)
    ELSE IF hasAnyRole(cu, data.roles) THEN Allowed
    ELSE createUrlTree("/unauthorized", NULL)

\* lines 12-36; data.hasRoles tells whether route.data['roles'] is there
roleGuard(ia, cu, data, url) ==
    IF ~ia THEN toLogin(url)
    ELSE IF ~data.hasRoles \/ data.roles = {} THEN Allowed
    ELSE IF hasAnyRole(cu, data.roles) THEN Allowed
    ELSE createUrlTree("/unauthorized", NULL)

\* the role each fixed-role guard asks for: lines 51, 71, 91, 111
guardRole(g) ==
    CASE g = "customerGuard" -> "customer"
      [] g = "cookGuard"     -> "cook"
      [] g = "deliveryGuard" -> "delivery_guy"
      [] g = "adminGuard"    -> "admin"

FixedRoleGuards == {"customerGuard", "cookGuard", "deliveryGuard", "adminGuard"}

\* lines 38-116: customerGuard, cookGuard, deliveryGuard, adminGuard
fixedRoleGuard(g, ia, cu, url) ==
    IF ~ia THEN toLogin(url)
    ELSE IF hasRole(cu, guardRole(g)) THEN Allowed
    ELSE createUrlTree("/unauthorized", NULL)

\* lines 165-170 and 184-189: dashboardRoutes[userRole], undefined (NULL) for a
\* key that is not in it
dashboardRoutes(r) ==
    CASE r = "customer"     -> "/customer/dashboard"
      [] r = "cook"         -> "/cook/dashboard"
      [] r = "delivery_guy" -> "/delivery_guy/dashboard"
      [] r = "admin"        -> "/admin/dashboard"
      [] OTHER              -> NULL

\* lines 152-175
guestGuard(ia, cu) ==
    IF ~ia THEN Allowed
    ELSE LET userRole == getUserRole(cu)
         IN  createUrlTree(IF Truthy(userRole) /\ Truthy(dashboardRoutes(userRole))
                             THEN dashboardRoutes(userRole) ELSE "/", NULL)

autoLoginGuard_rootFallback(ia, cu) == guestGuard(ia, cu)

\* lines 177-198
autoLoginGuard(ia, cu) ==
    IF ia
      THEN LET userRole == getUserRole(cu)
           IN  createUrlTree(IF Truthy(userRole) /\ Truthy(dashboardRoutes(userRole))
                               THEN dashboardRoutes(userRole)
                               ELSE "/customer/dashboard", NULL)
      ELSE Allowed

\* the sessions a guard may find: none, or a user with a role of UserRole, with
\* another role, or with none
GuardSessions ==
    {[ia |-> FALSE, cu |-> NULL]} \cup
    {[ia |-> TRUE, cu |-> u] : u \in AuthUsers \cup {"norole"}}

\* state.url of the navigation
GuardUrls == {"", "/cook/orders", "/customer/menu"}

\* route.data: without roles, with none, with one, with several
RouteData ==
    { [hasRoles |-> FALSE, roles |-> {}], [hasRoles |-> TRUE, roles |-> {}],
      [hasRoles |-> TRUE, roles |-> {"customer"}],
      [hasRoles |-> TRUE, roles |-> {"cook", "admin"}] }

Guards == {"authGuard", "roleGuard", "guestGuard", "autoLoginGuard"} \cup FixedRoleGuards

GuardInputs ==
    [fn : Guards, session : GuardSessions, url : GuardUrls, data : RouteData]

InitAuth == AuthInit /\ RetryIdle /\ ChainIdle /\ CallIdle

SpecAuth == InitAuth /\ [][AuthNext]_vars

InitRetry == RetryInit /\ AuthIdle

SpecRetry == InitRetry /\ [][RetryNext]_vars

-----------------------------------------------------------------------------
(* errorInterceptor, error.interceptor.ts *)

\* storage.service.ts lines 8-10: the localStorage keys of the Session Store
ACCESS_TOKEN_KEY == "access_token"
REFRESH_TOKEN_KEY == "refresh_token"
USER_KEY == "user_data"

\* lines 415-425: the keys clearAuthentication removes
keysToRemove == {"token", "accessToken", "refreshToken", "user", "auth"}

\* lines 412-429: localStorage.removeItem(key) for each of keysToRemove, seen
\* through the three keys StorageService reads
clearAuthentication(st) ==
    [access  |-> IF ACCESS_TOKEN_KEY \in keysToRemove THEN NULL ELSE st.access,
     refresh |-> IF REFRESH_TOKEN_KEY \in keysToRemove THEN NULL ELSE st.refresh,
     user    |-> IF USER_KEY \in keysToRemove THEN NULL ELSE st.user]

\* an event of the chain's history, with the Session Store as it is after it
CEv(ev, status, st) == [ev |-> ev, status |-> status, at |-> now, st |-> st]

isRefreshToken_authRefreshOnly(url) == Includes(url, <<"/auth", "/refresh">>)

\* lines 316-317
isRefreshToken(url) ==
    Includes(url, <<"/auth", "/refresh">>) \/ Includes(url, <<"/refresh", "-token">>)

\* lines 173-185: showToast is true unless the request carries X-No-Toast;
\* clearAuthOn401 keeps the true of DEFAULT_CONFIG (line 32)
\* and redirectOn403 the true of line 31
extractConfig(req) ==
    [showToast |-> ~req.noToast, clearAuthOn401 |-> TRUE, redirectOn403 |-> TRUE]

\* An HttpErrorResponse: the status and error.error, the body. Of the body the
\* interceptor reads `message` and `errors`; errors is absent, a string, or an
\* object whose entries, in order, are [field, isArray, value]: value holds the
\* messages of an array, or the one value that is not an array.
HttpErrorResponse(status, body) == [status |-> status, error |-> body]
NoErrors == [kind |-> "absent", entries |-> <<>>]
NoBody == [message |-> NULL, errors |-> NoErrors]

\* lines 307-338: the events, the store afterwards, the callbacks deferred
handleUnauthorized(st, req, config) ==
    LET toast == IF ~isRefreshToken(req.url) /\ config.showToast
                   THEN <<CEv("toast", 401, st)>> ELSE <<>>
    IN  IF config.clearAuthOn401 /\ ~isRefreshToken(req.url)
          THEN [evs   |-> toast \o <<CEv("clear", 401, clearAuthentication(st))>>,
                st    |-> clearAuthentication(st),
                defer |-> <<"/login">>]
          ELSE [evs |-> toast, st |-> st, defer |-> <<>>]

handleForbidden_toLogin(st, config) ==
    [evs   |-> IF config.showToast THEN <<CEv("toast", 403, st)>> ELSE <<>>,
     st    |-> st,
     defer |-> IF config.redirectOn403 THEN <<"/login">> ELSE <<>>]

\* lines 343-363
handleForbidden(st, config) ==
    [evs   |-> IF config.showToast THEN <<CEv("toast", 403, st)>> ELSE <<>>,
     st    |-> st,
     defer |-> IF config.redirectOn403 THEN <<"/unauthorized">> ELSE <<>>]

\* a toastr.error(message, title) of the 422 branch
ValidationToast(st, title, message) ==
    [ev |-> "toast", status |-> 422, at |-> now, st |-> st, title |-> title,
     message |-> message]

\* line 382
errorMessages(entry) == IF entry.isArray THEN entry.value ELSE <<entry.value[1]>>

\* lines 383-393: one toast per message of the entry
FieldToasts(st, entry) ==
    [i \in 1..Len(errorMessages(entry)) |->
        ValidationToast(st, <<"Validation Error: ", entry.field>>, errorMessages(entry)[i])]

\* lines 381-394: Object.entries(validationErrors).forEach
RECURSIVE EntriesToasts(_, _)
EntriesToasts(st, entries) ==
    IF entries = <<>> THEN <<>>
    ELSE FieldToasts(st, Head(entries)) \o EntriesToasts(st, Tail(entries))

handleValidationError_firstOnly(st, config, error) ==
    [evs   |-> IF ~config.showToast THEN <<>>
               ELSE IF error.error.errors.kind = "object"
                      THEN (IF error.error.errors.entries = <<>> THEN <<>>
                            ELSE FieldToasts(st, Head(error.error.errors.entries)))
                      ELSE <<ValidationToast(st, "Validation Error", error.error.message)>>,
     st    |-> st,
     defer |-> <<>>]

\* lines 368-407; a message that is missing shows as the default text (NULL here)
handleValidationError(st, config, error) ==
    [evs   |-> IF ~config.showToast THEN <<>>
               ELSE IF error.error.errors.kind = "object"
                      THEN EntriesToasts(st, error.error.errors.entries)
                      ELSE <<ValidationToast(st, "Validation Error", error.error.message)>>,
     st    |-> st,
     defer |-> <<>>]

\* lines 268-302
handleHttpError(st, req, config, error) ==
    CASE error.status = 401 -> handleUnauthorized(st, req, config)
      [] error.status = 403 -> handleForbidden(st, config)
      [] error.status = 422 -> handleValidationError(st, config, error)
      [] OTHER ->
           [evs   |-> IF config.showToast THEN <<CEv("toast", error.status, st)>> ELSE <<>>,
            st    |-> st,
            defer |-> <<>>]

createEnhancedError_fixedStatus(error, req) ==
    [status |-> 500, timestamp |-> now, url |-> req.url, method |-> req.method,
     error |-> error.error]

\* lines 190-202; the message (extractErrorMessage, lines 207-263) is a text no
\* property reads and is left out
createEnhancedError(error, req) ==
    [status |-> error.status, timestamp |-> now, url |-> req.url, method |-> req.method,
     error |-> error.error]

\* lines 74-87: createEnhancedError, handleHttpError, throwError(enhancedError)
errorInterceptor(st, req, status) ==
    LET h == handleHttpError(st, req, extractConfig(req), HttpErrorResponse(status, NoBody))
    IN  [h EXCEPT !.evs = <<CEv("fail", status, st), CEv("enhanced", status, st)>>
                          \o @ \o <<CEv("rethrow", status, h.st)>>]

-----------------------------------------------------------------------------
(* The interceptor chain around one logical request *)

\* error.interceptor.spec.ts lines 603-609
ChainOfTest == <<"retryInterceptor", "loggingInterceptor", "errorInterceptor">>
\* the chain with authInterceptor at the outermost edge
ChainWithAuth == <<"authInterceptor">> \o ChainOfTest

HasAuth == chain[1] = "authInterceptor"

ChainUrls == {<<"/api", "/test">>, <<"/auth", "/refresh">>, RefreshUrl}
ChainStatuses == {401, 500}

InitChain ==
    /\ chain \in {ChainOfTest, ChainWithAuth}
    /\ cReq \in [url : ChainUrls, noToast : BOOLEAN]
    /\ cPass = 0
    /\ cDeferred = <<>>
    /\ routerUrl = "/menu"
    /\ CallIdle
    /\ rReq \in [method : {"GET", "POST"}, skipRetry : BOOLEAN]
    /\ rPc = "idle"
    /\ attempt = 0
    /\ rTimer = -1
    /\ rInflight = 0
    /\ rLatency = 0
    /\ now = 0
    /\ rLog = <<>>
    /\ rOutcomes = <<>>
    /\ authSvc = "auth.service.ts"
    /\ authIcp = "auth.interceptor.ts"
    /\ storage = [access |-> "t1", refresh |-> "r1", user |-> "u1"]
    /\ currentUser = "u1"
    /\ isAuthenticated = TRUE
    /\ reqs = <<>>
    /\ navs = <<>>
    /\ logoutLog = <<>>
    /\ isLoading = FALSE

\* what the caller of the chain receives
Outcome(kind, status) == [kind |-> kind, status |-> status]

\* a line loggingInterceptor writes to the console
LogEv(ev, status, st) ==
    [ev |-> ev, status |-> status, at |-> now, st |-> st,
     method |-> rReq.method, url |-> cReq.url]

\* the closure variable requestLogged of the loggingInterceptor invocation that
\* handles the attempt on the network: its request line has been written
requestLogged ==
    \E i \in 1..Len(rLog) :
        /\ rLog[i].ev = "logRequest"
        /\ \A j \in (i+1)..Len(rLog) : rLog[j].ev # "send"

loggingTap_atResponse(logged, type, status, st) ==
    IF type = "Response"
      THEN <<LogEv("logRequest", 0, st), LogEv("logSuccess", status, st)>>
      ELSE <<>>

\* lines 103-119: the tap, run on every HttpEvent of next(req); the backend
\* emits the event of type Sent when it dispatches the request and the event
\* of type Response when the answer is a success
loggingTap(logged, type, status, st) ==
    (IF ~logged THEN <<LogEv("logRequest", 0, st)>> ELSE <<>>)
      \o (IF type = "Response" THEN <<LogEv("logSuccess", status, st)>> ELSE <<>>)

\* lines 120-127: the catchError, which re-throws the error
loggingCatch(status, st) == <<LogEv("logFailure", status, st)>>

\* next(req) of errorInterceptor: the request goes on the network and the Sent
\* event comes back through the interceptors
Dispatch(st) == <<CEv("send", 0, st)>> \o loggingTap(FALSE, "Sent", 0, st)

\* The caller subscribes: the request enters each interceptor in turn and
\* errorInterceptor's next(req) puts it on the network.
ChainSubscribe ==
    /\ rPc = "idle"
    /\ rPc' = "inflight"
    /\ cPass' = 1
    /\ attempt' = 0
    /\ rInflight' = rInflight + 1
    /\ rLog' = rLog \o Dispatch(storage)
    /\ UNCHANGED <<rReq, rTimer, rLatency, now, rOutcomes>>
    /\ UNCHANGED <<authSvc, authIcp, storage, currentUser, isAuthenticated, reqs,
                   navs, logoutLog, isLoading, chain, cReq, cDeferred, routerUrl,
                   pvars>>

\* The response arrives and passes every interceptor unchanged.
ChainRespondOk ==
    /\ rPc = "inflight"
    /\ rPc' = "done"
    /\ rInflight' = rInflight - 1
    /\ rLog' = Append(rLog, CEv("ok", 200, storage))
                 \o loggingTap(requestLogged, "Response", 200, storage)
    /\ rOutcomes' = Append(rOutcomes, Outcome("success", 200))
    /\ UNCHANGED <<rReq, attempt, rTimer, rLatency, now>>
    /\ UNCHANGED avars

\* the parts of the state a step of the chain leaves alone
ChainFrame == UNCHANGED <<rReq, rTimer, rLatency, now, authSvc, authIcp, reqs,
                          logoutLog, isLoading, chain, cReq, routerUrl, pvars>>

\* AuthService.logout() called n times, as the chain sees it: clearAuthData()
\* and router.navigate(['/login']) each time
ChainLogout(n) ==
    /\ storage' = clearAuthData(W).st
    /\ currentUser' = clearAuthData(W).cu
    /\ isAuthenticated' = clearAuthData(W).ia
    /\ navs' = navs \o [i \in 1..n |-> "/login"]

\* The attempt on the network fails with this status. The error passes, from
\* the inside out, the catchError of errorInterceptor (lines 74-87), of
\* loggingInterceptor (120-127, which rethrows it), of retryInterceptor
\* (149-165) and, when the retry stage gives up, of authInterceptor
\* (auth.interceptor.ts 37-43 on the first pass, 61-67 on the re-issued one).
ChainRespondErr(status) ==
    /\ rPc = "inflight"
    /\ rInflight' = rInflight - 1
    /\ LET e0 == errorInterceptor(storage, cReq, status)
           e == [e0 EXCEPT !.evs = @ \o loggingCatch(status, e0.st)]
           caught == HasAuth /\ ~skipAuth(cReq.url)
       IN  /\ cDeferred' = cDeferred \o e.defer
           /\ IF ~RetryBypass(rReq) /\ shouldRetry(attempt, status)
                THEN /\ attempt' = attempt + 1
                     /\ rPc' = "backoff"
                     /\ rLog' = rLog \o e.evs \o <<CEv("timer", delayMs(attempt), e.st)>>
                     /\ storage' = e.st
                     /\ UNCHANGED <<rOutcomes, cPass, currentUser, isAuthenticated, navs>>
                \* refreshToken() with a refresh token stored
                ELSE IF /\ caught /\ cPass = 1 /\ status = 401
                        /\ ~Includes(cReq.url, <<"/auth", "/refresh">>)
                        /\ Truthy(e.st.refresh)
                       THEN /\ rPc' = "refreshing"
                            /\ rLog' = rLog \o e.evs \o <<CEv("refresh", 0, e.st)>>
                            /\ storage' = e.st
                            /\ UNCHANGED <<attempt, rOutcomes, cPass, currentUser,
                                           isAuthenticated, navs>>
                \* refreshToken() without one, or the re-issued request failed:
                \* the catchError of lines 61-67 calls logout()
                ELSE IF caught /\ (cPass = 2 \/ (status = 401 /\
                                     ~Includes(cReq.url, <<"/auth", "/refresh">>)))
                       THEN /\ rPc' = "done"
                            /\ rLog' = rLog \o e.evs \o <<CEv("logout", 0, EmptyStore)>>
                            /\ ChainLogout(1)
                            /\ rOutcomes' = Append(rOutcomes,
                                  Outcome("error", IF cPass = 2 THEN status ELSE -1))
                            /\ UNCHANGED <<attempt, cPass>>
                ELSE /\ rPc' = "done"
                     /\ rLog' = rLog \o e.evs
                     /\ storage' = e.st
                     /\ rOutcomes' = Append(rOutcomes, Outcome("error", status))
                     /\ UNCHANGED <<attempt, cPass, currentUser, isAuthenticated, navs>>
    /\ ChainFrame

\* The refresh request of refreshToken() is answered. On success the tap
\* stores the new access token and next(retryReq) sends the request through
\* the interceptors after authInterceptor again; on failure refreshToken() and
\* then the catchError of lines 61-67 each call logout().
ChainRefreshRespond(ok) ==
    /\ rPc = "refreshing"
    /\ IF ok
         THEN /\ storage' = tapRefresh(W, OkRes("t2", NULL)).st
              /\ rPc' = "inflight"
              /\ cPass' = cPass + 1
              /\ attempt' = 0
              /\ rInflight' = rInflight + 1
              /\ rLog' = rLog \o Dispatch(storage')
              /\ UNCHANGED <<rOutcomes, currentUser, isAuthenticated, navs>>
         ELSE /\ ChainLogout(2)
              /\ rPc' = "done"
              /\ rLog' = Append(rLog, CEv("logout", 0, EmptyStore))
              /\ rOutcomes' = Append(rOutcomes, Outcome("error", 401))
              /\ UNCHANGED <<attempt, rInflight, cPass>>
    /\ UNCHANGED cDeferred
    /\ ChainFrame

\* timer(delayMs) fires: handleRequest() sends the next attempt. The deferred
\* callbacks, set 100 ms after the failure, have run by then.
ChainTimerFire ==
    /\ rPc = "backoff"
    /\ cDeferred = <<>>
    /\ rPc' = "inflight"
    /\ rInflight' = rInflight + 1
    /\ rLog' = rLog \o Dispatch(storage)
    /\ UNCHANGED <<attempt, rOutcomes, cPass, cDeferred, storage, currentUser,
                   isAuthenticated, navs>>
    /\ ChainFrame

\* A deferred callback of handleUnauthorized runs (lines 332-336).
ChainDeferredFire ==
    /\ cDeferred # <<>>
    /\ cDeferred' = Tail(cDeferred)
    /\ navs' = Append(navs, Head(cDeferred))
    /\ rLog' = Append(rLog, [ev |-> "navigate", status |-> 0, at |-> now,
                             st |-> storage, path |-> Head(cDeferred),
                             returnUrl |-> routerUrl, url |-> routerUrl])
    /\ UNCHANGED <<rPc, attempt, rInflight, rOutcomes, cPass, storage, currentUser,
                   isAuthenticated>>
    /\ ChainFrame

\* The user moves to another page while the request is under way.
RouteChange ==
    /\ routerUrl = "/menu"
    /\ rPc # "idle"
    /\ routerUrl' = "/cart"
    /\ UNCHANGED <<rvars, authSvc, authIcp, storage, currentUser, isAuthenticated,
                   reqs, navs, logoutLog, isLoading, chain, cReq, cPass, cDeferred,
                   pvars>>

ChainNext ==
    \/ ChainSubscribe
    \/ ChainRespondOk
    \/ \E status \in ChainStatuses : ChainRespondErr(status)
    \/ \E ok \in BOOLEAN : ChainRefreshRespond(ok)
    \/ ChainTimerFire
    \/ ChainDeferredFire
    \/ RouteChange

SpecChain == InitChain /\ [][ChainNext]_vars

-----------------------------------------------------------------------------
(* One call of authInterceptor, of a route guard or of errorInterceptor *)

\* the requests the application sends: none sets Authorization itself
HttpRequests ==
    [method : {"GET", "POST"},
     url : {<<"/api", "/protected-resource">>, <<"/auth", "/login">>, LoginUrl, ProfileUrl},
     body : {NULL, "body"},
     headers : {h \in [HeaderNames -> {NULL, "true"}] :
                  h["Authorization"] = NULL /\ h["Content-Type"] = NULL}]

\* what StorageService.getAccessToken() may return
StoredTokens == {NULL, "", "t1"}

\* the statuses errorInterceptor is called on
FailStatuses == {0, 401, 403, 404, 422, 500}

\* error.error.errors of a 422: {email: [a, b], name: [c]}, {email: 'single'},
\* {email: [], name: [c]}, {}, a string, and none
ValidationErrors ==
    { [kind |-> "object",
       entries |-> << [field |-> "email", isArray |-> TRUE, value |-> <<"a", "b">>],
                      [field |-> "name", isArray |-> TRUE, value |-> <<"c">>] >>],
      [kind |-> "object",
       entries |-> << [field |-> "email", isArray |-> FALSE, value |-> <<"single">>] >>],
      [kind |-> "object",
       entries |-> << [field |-> "email", isArray |-> TRUE, value |-> <<>>],
                      [field |-> "name", isArray |-> TRUE, value |-> <<"c">>] >>],
      [kind |-> "object", entries |-> <<>>],
      [kind |-> "string", entries |-> <<>>],
      NoErrors }

ErrorBodies == [message : {NULL, "Access denied"}, errors : ValidationErrors]

\* what errorInterceptor reads of a request: method, URL, X-No-Toast
ErrorRequests ==
    [method : {"GET", "POST"}, url : {<<"/api", "/test">>, RefreshUrl}, noToast : BOOLEAN]

ErrorInputs ==
    [fn : {"errorInterceptor"}, req : ErrorRequests,
     error : {HttpErrorResponse(s, b) : s \in FailStatuses, b \in ErrorBodies},
     st : {[access |-> "t1", refresh |-> "r1", user |-> "u1"]}]

\* token strings of every shape, with exp before, at and after the times
TokenShapes ==
    [segments : {1, 2, 3}, base64 : BOOLEAN, json : {"object", "null", "invalid"},
     hasExp : BOOLEAN, exp : {0, 1, 2}]

\* Date.now() at the call, in ms
CallTimes == {0, 999, 1000, 1999, 2000}

\* what localStorage may hold when AuthService is constructed
ConstructorInputs ==
    [fn : {"constructor"},
     st : [access : {NULL, "", "t1", "expired", "mock_jwt_token"},
           refresh : {NULL, "r1"}, user : {NULL, "u1"}]]

\* the sessions logout() is called in: with and without a refresh token
LogoutInputs ==
    [fn : {"logout"},
     st : [access : {"t1"}, refresh : {NULL, "r1"}, user : {"u1"}]]

TokenInputs == [fn : {"isTokenValid"}, token : TokenShapes, ms : CallTimes]

CallInputs ==
    [fn : {"authInterceptor"}, req : HttpRequests, token : StoredTokens]
      \cup GuardInputs \cup ErrorInputs \cup TokenInputs \cup ConstructorInputs
      \cup LogoutInputs

\* One function is about to be called on some input.
InitCalls ==
    /\ call \in CallInputs
    /\ ret = NoRet
    /\ RetryIdle
    /\ ChainIdle
    /\ authSvc = "auth.service.ts"
    /\ authIcp = "auth.interceptor.ts"
    /\ storage = EmptyStore
    /\ currentUser = NULL
    /\ isAuthenticated = FALSE
    /\ reqs = <<>>
    /\ navs = <<>>
    /\ logoutLog = <<>>
    /\ isLoading = FALSE

\* what a call leaves unchanged
CallFrame ==
    UNCHANGED <<rvars, cvars, call, authSvc, authIcp, storage, currentUser,
                isAuthenticated, reqs, navs, logoutLog, isLoading>>

\* authInterceptor(req, next) runs up to next(authReq).
Intercept ==
    /\ call.fn = "authInterceptor"
    /\ ~ret.done
    /\ ret' = [done |-> TRUE, next |-> nextArg(call.req, call.token), req |-> call.req]
    /\ CallFrame

\* The router runs the guard call.fn for a navigation to call.url.
CanActivate(result) ==
    /\ ~ret.done
    /\ ret' = [done |-> TRUE, result |-> result]
    /\ CallFrame

AuthGuard ==
    /\ call.fn = "authGuard"
    /\ CanActivate(authGuard(call.session.ia, call.url))

RoleGuard ==
    /\ call.fn = "roleGuard"
    /\ CanActivate(roleGuard(call.session.ia, call.session.cu, call.data, call.url))

FixedRoleGuard ==
    /\ call.fn \in FixedRoleGuards
    /\ CanActivate(fixedRoleGuard(call.fn, call.session.ia, call.session.cu, call.url))

GuestGuard ==
    /\ call.fn = "guestGuard"
    /\ CanActivate(guestGuard(call.session.ia, call.session.cu))

AutoLoginGuard ==
    /\ call.fn = "autoLoginGuard"
    /\ CanActivate(autoLoginGuard(call.session.ia, call.session.cu))

\* next(req) fails with call.error: the catchError of errorInterceptor runs
\* (lines 74-87) and the subscriber receives what it throws.
CatchError ==
    /\ call.fn = "errorInterceptor"
    /\ ~ret.done
    /\ LET h == handleHttpError(call.st, call.req, extractConfig(call.req), call.error)
       IN  ret' = [done |-> TRUE, evs |-> h.evs, st |-> h.st, defer |-> h.defer,
                   outcome |-> [kind |-> "error",
                                error |-> createEnhancedError(call.error, call.req)]]
    /\ CallFrame

\* A setTimeout(..., 100) callback of errorInterceptor runs: router.navigate.
CallTimeout ==
    /\ call.fn = "errorInterceptor"
    /\ ret.done
    /\ ret.defer # <<>>
    /\ navs' = Append(navs, Head(ret.defer))
    /\ ret' = [ret EXCEPT !.defer = Tail(@)]
    /\ UNCHANGED <<rvars, cvars, call, authSvc, authIcp, storage, currentUser,
                   isAuthenticated, reqs, logoutLog, isLoading>>

\* AuthService calls isTokenValid(token).
IsTokenValid ==
    /\ call.fn = "isTokenValid"
    /\ ~ret.done
    \* the try of lines 55-61 encloses the whole body: nothing is thrown
    /\ ret' = [done |-> TRUE, result |-> isTokenValidAt(call.token, call.ms),
               threw |-> FALSE]
    /\ CallFrame

\* AuthService is constructed (lines 33-35): the signals have their initial
\* values and loadStoredUser() runs.
Construct ==
    /\ call.fn = "constructor"
    /\ ~ret.done
    /\ ret' = [done |-> TRUE,
               w |-> loadStoredUser([st |-> call.st, cu |-> NULL, ia |-> FALSE])]
    /\ CallFrame

\* The application calls AuthService.logout() in the session call.st.
CallLogout ==
    /\ call.fn = "logout"
    /\ ~ret.done
    /\ ret' = [done |-> TRUE,
               w |-> AuthServiceLogout([st |-> call.st, cu |-> call.st.user,
                                        ia |-> TRUE, reqs |-> <<>>, navs |-> <<>>,
                                        ll |-> <<>>, il |-> FALSE], 0)]
    /\ CallFrame

CallsNext ==
    \/ Intercept
    \/ Construct
    \/ CallLogout
    \/ IsTokenValid
    \/ CatchError
    \/ CallTimeout
    \/ AuthGuard
    \/ RoleGuard
    \/ FixedRoleGuard
    \/ GuestGuard
    \/ AutoLoginGuard

SpecCalls == InitCalls /\ [][CallsNext]_vars

-----------------------------------------------------------------------------
(* The route table and the router, app.routes.ts *)

\* app.routes.ts lines 15-129: each top-level route with its canActivate, the
\* paths of its children, and the redirectTo of its child with path ''.
\* meal/:id and orders/:id stand with the id 1.
routes ==
    << [path |-> "", canActivate |-> <<"autoLoginGuard">>,
        children |-> {""}, redirectTo |-> NULL],
       [path |-> "/auth", canActivate |-> <<"guestGuard">>,
        children |-> {"/login", "/register", "/forgot-password"},
        redirectTo |-> "/login"],
       [path |-> "/customer", canActivate |-> <<"authGuard", "customerGuard">>,
        children |-> {"/dashboard", "/browse-meals", "/meal/1", "/cart", "/orders",
                      "/orders/1", "/favorites", "/profile"},
        redirectTo |-> "/dashboard"] >>

\* lines 25-34: the route of LoginComponent
LoginRoute == routes[2].path \o "/login"

\* the URLs the table has a route for
RouteUrls ==
    UNION { {routes[i].path \o c : c \in routes[i].children}
              \cup (IF routes[i].redirectTo = NULL THEN {} ELSE {routes[i].path})
            : i \in 1..Len(routes) }

\* createUrlTree(['/']) is the URL of the route with path ''
UrlOf(path) == IF path = "/" THEN "" ELSE path

\* the route that matches the URL
Matched(url) ==
    CHOOSE i \in 1..Len(routes) :
        \/ \E c \in routes[i].children : url = routes[i].path \o c
        \/ routes[i].redirectTo # NULL /\ url = routes[i].path

\* what the guard g returns for the session and the URL
guardResult(g, session, url) ==
    CASE g = "authGuard"      -> authGuard(session.ia, url)
      [] g = "guestGuard"     -> guestGuard(session.ia, session.cu)
      [] g = "autoLoginGuard" -> autoLoginGuard(session.ia, session.cu)
      [] OTHER                -> fixedRoleGuard(g, session.ia, session.cu, url)

\* The router runs the guards of canActivate: the result is that of the first
\* guard, in the order of the array, that does not return true.
RECURSIVE runGuards(_, _, _)
runGuards(guards, session, url) ==
    IF guards = <<>> THEN Allowed
    ELSE IF guardResult(Head(guards), session, url).allow
           THEN runGuards(Tail(guards), session, url)
           ELSE guardResult(Head(guards), session, url)

\* redirects the router follows in one navigation in the behaviours explored
MaxHops == 5

\* A navigation to a URL of the table starts, in some session.
InitRoutes ==
    /\ call \in [fn : {"navigate"}, session : GuardSessions, url : RouteUrls]
    /\ ret = [done |-> FALSE, url |-> call.url, hops |-> 0, outcome |-> "pending"]
    /\ RetryIdle
    /\ ChainIdle
    /\ authSvc = "auth.service.ts"
    /\ authIcp = "auth.interceptor.ts"
    /\ storage = EmptyStore
    /\ currentUser = NULL
    /\ isAuthenticated = FALSE
    /\ reqs = <<>>
    /\ navs = <<>>
    /\ logoutLog = <<>>
    /\ isLoading = FALSE

\* The table has no route for the URL: the navigation fails.
RouterNoMatch ==
    /\ ~ret.done
    /\ ret.url \notin RouteUrls
    /\ ret' = [ret EXCEPT !.done = TRUE, !.outcome = "nomatch"]
    /\ CallFrame

\* Every guard of the matched route allows: the route is activated.
RouterActivate ==
    /\ ~ret.done
    /\ ret.url \in RouteUrls
    /\ runGuards(routes[Matched(ret.url)].canActivate, call.session, ret.url).allow
    /\ ret' = [ret EXCEPT !.done = TRUE, !.outcome = "activated"]
    /\ CallFrame

\* A guard of the matched route returns a UrlTree: the router navigates there.
RouterRedirect ==
    /\ ~ret.done
    /\ ret.hops < MaxHops
    /\ ret.url \in RouteUrls
    /\ LET result == runGuards(routes[Matched(ret.url)].canActivate, call.session,
                               ret.url)
       IN  /\ ~result.allow
           /\ ret' = [ret EXCEPT !.url = UrlOf(result.path), !.hops = @ + 1]
    /\ CallFrame

RoutesNext ==
    \/ RouterNoMatch
    \/ RouterActivate
    \/ RouterRedirect

SpecRoutes == InitRoutes /\ [][RoutesNext]_vars

-----------------------------------------------------------------------------
(* Properties of retryInterceptor *)

Sends  == SelectSeq(rLog, LAMBDA e : e.ev = "send")
Fails  == SelectSeq(rLog, LAMBDA e : e.ev = "fail")
Timers == SelectSeq(rLog, LAMBDA e : e.ev = "timer")

Retryable(status) == status = 0 \/ status >= 500
Is4xx(status) == status >= 400 /\ status <= 499

\* C1: a GET without X-Skip-Retry whose every attempt fails with status 0 or
\* >= 500 makes exactly 4 attempts, one after another (an attempt is dispatched
\* only once the previous one has failed and its backoff has elapsed), with
\* backoffs of 1000, 2000 and 4000 ms, and then the failure of the 4th attempt
\* is what the subscriber receives.
C1_RetryExhausts ==
    (rReq.method = "GET" /\ ~rReq.skipRetry) =>
        /\ rInflight <= 1
        /\ \A i \in 2..Len(rLog) :
              rLog[i].ev = "send" =>
                 /\ i > 2
                 /\ rLog[i-1].ev = "timer"
                 /\ rLog[i-2].ev = "fail"
                 /\ rLog[i].at - rLog[i-2].at = rLog[i-1].status
        /\ ( /\ rPc = "done"
             /\ \A i \in 1..Len(Fails) : Retryable(Fails[i].status)
             /\ Len(rOutcomes) > 0
             /\ rOutcomes[Len(rOutcomes)].kind = "error" )
           => /\ Len(Sends) = 4
              /\ Len(Fails) = 4
              /\ [i \in 1..Len(Timers) |-> Timers[i].status] = <<1000, 2000, 4000>>
              /\ rOutcomes = <<[kind |-> "error", status |-> Fails[4].status]>>

C1_Witness ==
    /\ rReq.method = "GET" /\ ~rReq.skipRetry
    /\ rPc = "done"
    /\ Len(Sends) = 4
    /\ [i \in 1..Len(Fails) |-> Fails[i].status] = <<0, 500, 503, 0>>
    /\ rOutcomes = <<[kind |-> "error", status |-> 0]>>

\* C2: a request that is not a GET, or carries X-Skip-Retry, makes exactly one
\* attempt and its failure is surfaced unchanged; a 4xx failure, on the first
\* or on a later attempt, ends the request at once with that failure.
C2_NoRetry ==
    /\ (rPc = "done" /\ (rReq.method # "GET" \/ rReq.skipRetry)) =>
          /\ Len(Sends) = 1
          /\ Len(Timers) = 0
          /\ Len(Fails) = 1 =>
                rOutcomes = <<[kind |-> "error", status |-> Fails[1].status]>>
    /\ \A i \in 1..Len(rLog) :
          (rLog[i].ev = "fail" /\ Is4xx(rLog[i].status)) =>
             /\ i = Len(rLog)
             /\ rPc = "done"
             /\ rTimer = -1
             /\ rInflight = 0
             /\ rOutcomes = <<[kind |-> "error", status |-> rLog[i].status]>>
    /\ (Len(Fails) > 0 /\ Is4xx(Fails[1].status)) => Len(Sends) = 1

C2_Witness ==
    /\ rReq.method = "GET" /\ rReq.skipRetry
    /\ rPc = "done"
    /\ Len(Sends) = 1
    /\ rOutcomes = <<[kind |-> "error", status |-> 503]>>

\* C10: the subscriber receives exactly one terminal outcome, a success or an
\* error and never both; a GET that succeeds after k retryable failures
\* (1 <= k <= 3) delivers that success and no error after exactly k+1
\* attempts, and nothing is dispatched or scheduled afterwards.
C10_OneOutcome ==
    /\ Len(rOutcomes) <= 1
    /\ (rPc = "done") <=> (Len(rOutcomes) = 1)
    /\ rPc = "done" => (rInflight = 0 /\ rTimer = -1)
    /\ (rPc = "done" /\ rLog[Len(rLog)].ev = "ok") =>
          /\ rOutcomes = <<[kind |-> "success", status |-> 200]>>
          /\ Len(Sends) = Len(Fails) + 1
          /\ Len(Fails) <= maxRetries
          /\ \A i \in 1..Len(Fails) : Retryable(Fails[i].status)

C10_Witness ==
    /\ rPc = "done"
    /\ Len(Fails) = 3
    /\ Len(Sends) = 4
    /\ rOutcomes = <<[kind |-> "success", status |-> 200]>>

-----------------------------------------------------------------------------
(* Properties of authInterceptor and AuthService *)

Frames == 1..Len(reqs)

\* the refresh requests sent by the refreshToken() call of request f
RefreshReqsOf(f) == {c \in Frames : reqs[c].kind = "refresh" /\ reqs[c].parent = f}

\* request f is not allow-listed and its first attempt was answered 401
Got401(f) == ~reqs[f].skip /\ reqs[f].res1 = 401

\* C3: for a request that is not allow-listed and whose first attempt fails
\* with 401, refreshToken() is invoked exactly once; the request is re-issued
\* at most once, only after the refresh has settled successfully, and then
\* with Authorization: Bearer <the token the refresh stored>; when the refresh
\* yields a token the re-issue does take place, and what the re-issue settles
\* with is what the subscriber receives.
C3_RefreshThenReissue ==
    \A f \in Frames : Got401(f) =>
        /\ reqs[f].nRefresh = 1
        /\ Cardinality(RefreshReqsOf(f)) <= 1
        /\ reqs[f].nReissue <= 1
        /\ reqs[f].pc = "refreshing" => reqs[f].nReissue = 0
        /\ reqs[f].nReissue = 1 =>
              /\ reqs[f].refreshRes = "ok"
              /\ \E c \in RefreshReqsOf(f) :
                    /\ reqs[c].pc = "done"
                    /\ reqs[c].result.kind = "ok"
                    /\ reqs[f].auth2 = reqs[c].result.access
              /\ Truthy(reqs[f].auth2)
        /\ (\E c \in RefreshReqsOf(f) :
               reqs[c].result.kind = "ok" /\ Truthy(reqs[c].result.access))
             => reqs[f].nReissue = 1
        /\ (reqs[f].nReissue = 1 /\ reqs[f].pc = "done") =>
              /\ reqs[f].res2.kind # "none"
              /\ reqs[f].result = reqs[f].res2
              /\ reqs[f].nDelivered = 1

C3_Witness ==
    \E f \in Frames :
        /\ reqs[f].kind = "user" /\ Got401(f)
        /\ reqs[f].auth1 = "t1"
        /\ reqs[f].nRefresh = 1 /\ reqs[f].nReissue = 1
        /\ reqs[f].auth2 = "t2"
        /\ reqs[f].pc = "done"
        /\ reqs[f].result.kind = "ok"

\* C4: when the request re-issued after a successful refresh is answered 401
\* again, refreshToken() is not invoked a second time, the request is not
\* re-issued again, and that 401 is the error the subscriber receives.
C4_RefreshAtMostOnce ==
    \A f \in Frames :
        /\ reqs[f].nRefresh <= 1
        /\ Cardinality(RefreshReqsOf(f)) <= 1
        /\ reqs[f].nReissue <= 1
        /\ reqs[f].res2.status = 401 =>
              /\ reqs[f].pc = "done"
              /\ reqs[f].result = HttpErr(401)
              /\ reqs[f].nDelivered = 1

C4_Witness ==
    \E f \in Frames :
        /\ reqs[f].kind = "user" /\ Got401(f)
        /\ reqs[f].nReissue = 1
        /\ reqs[f].res2.status = 401
        /\ reqs[f].pc = "done"

\* the authentication endpoints: the allow-list patterns, and the URLs
\* AuthService calls for login, register, refresh and forgot-password
AuthEndpoint(url) ==
    \/ skipAuth(url)
    \/ url \in {LoginUrl, RegisterUrl, RefreshUrl, ForgotUrl}

\* C5: a 401 answer to a request sent to an authentication endpoint never makes
\* authInterceptor invoke refreshToken(); in particular the refresh request of
\* refreshToken() never starts another refresh.
C5_NoRefreshOnAuthEndpoints ==
    \A f \in Frames :
        /\ AuthEndpoint(reqs[f].url) => reqs[f].nRefresh = 0
        /\ reqs[f].kind = "refresh" => RefreshReqsOf(f) = {}

\* C6: a request to an authentication endpoint is forwarded without an
\* Authorization header, also when an access token is stored.
C6_NoBearerOnAuthEndpoints ==
    \A f \in Frames :
        AuthEndpoint(reqs[f].url) => (reqs[f].auth1 = NULL /\ reqs[f].auth2 = NULL)

\* C7: when a non-allow-listed request fails with 401 and the refresh yields no
\* usable token, then when the error reaches the subscriber logout() has been
\* invoked exactly once in total, the request has not been re-issued, and the
\* error is the refresh error, or 'Token refresh failed' when the refresh
\* succeeded without leaving an access token.
C7_LogoutOnceOnRefreshFailure ==
    \A f \in Frames :
        ( /\ Got401(f) /\ ~AuthEndpoint(reqs[f].url)
          /\ reqs[f].pc = "done" /\ reqs[f].nReissue = 0 ) =>
            /\ reqs[f].nLogout = 1
            /\ reqs[f].refreshRes = "ok" => reqs[f].result = JsErr(TokenRefreshFailed)
            /\ reqs[f].refreshRes = "err" =>
                  /\ reqs[f].result.kind = "err"
                  /\ \A c \in RefreshReqsOf(f) : reqs[f].result = reqs[c].result
                  /\ RefreshReqsOf(f) = {} => reqs[f].result = JsErr(NoRefreshToken)

Cleared(st, cu, ia) == st = EmptyStore /\ cu = NULL /\ ia = FALSE

LogoutReqs == {f \in Frames : reqs[f].kind = "logout"}

\* C8: when logout() returns the Session Store holds no access token, no
\* refresh token and no user, currentUser is null and isAuthenticated is false;
\* a /logout request is issued exactly when a refresh token was stored; and
\* the answer to the /logout request, whatever it is, stores nothing back.
C8_LogoutClears ==
    /\ [](/\ \A i \in 1..Len(logoutLog) :
               /\ Cleared(logoutLog[i].st, logoutLog[i].cu, logoutLog[i].ia)
               /\ logoutLog[i].posted <=> Truthy(logoutLog[i].rt)
          /\ Cardinality(LogoutReqs) =
               Cardinality({i \in 1..Len(logoutLog) : Truthy(logoutLog[i].rt)}))
    /\ [][\A f \in LogoutReqs :
            (reqs[f].pc # "done" /\ reqs'[f].pc = "done") =>
               /\ storage' \in {storage, EmptyStore}
               /\ currentUser' \in {currentUser, NULL}
               /\ isAuthenticated' => isAuthenticated]_vars

C8_Witness ==
    /\ \E i \in 1..Len(logoutLog) : logoutLog[i].rt = "r1" /\ logoutLog[i].cause = 0
    /\ \E i \in 1..Len(logoutLog) : logoutLog[i].rt = NULL
    /\ \E f \in LogoutReqs : reqs[f].pc = "done" /\ reqs[f].result.kind = "err"
    /\ Cleared(storage, currentUser, isAuthenticated)

\* C9: in logout() the Session Store is cleared before the /logout request is
\* dispatched into the pipeline, and that request carries the refresh token
\* read before the clear.
C9_ClearBeforeLogoutRequest ==
    \A f \in LogoutReqs :
        /\ reqs[f].stAtSend = EmptyStore
        /\ Truthy(reqs[f].body)
        /\ \E i \in 1..Len(logoutLog) :
              logoutLog[i].posted /\ logoutLog[i].rt = reqs[f].body

-----------------------------------------------------------------------------
(* Properties of AuthService.refreshToken *)

\* C18: a refreshToken() call made while no refresh token is stored fails at
\* once with the error 'No refresh token available', puts no request into the
\* pipeline, and at the delivery of that error the Session Store, currentUser,
\* isAuthenticated and the navigations are what they were at the call.
C18_NoRefreshTokenFailsAtOnce ==
    \A f \in Frames :
        (reqs[f].nRefresh > 0 /\ ~Truthy(reqs[f].rfCall.st.refresh)) =>
            /\ reqs[f].rfRes = JsErr(NoRefreshToken)
            /\ reqs[f].rfAt = reqs[f].rfCall
            /\ RefreshReqsOf(f) = {}

C18_Witness ==
    \E f \in Frames :
        /\ reqs[f].nRefresh = 1
        /\ reqs[f].rfCall.st = [access |-> "t1", refresh |-> NULL, user |-> "u1"]
        /\ reqs[f].rfRes = JsErr(NoRefreshToken)
        /\ reqs[f].rfAt.ia

\* C19: when the refresh request of a refreshToken() call has failed, logout()
\* has run between the arrival of the failure and its delivery to the caller
\* of refreshToken(): at the delivery the Session Store is empty, currentUser
\* is null and isAuthenticated is false, and the error delivered is the error
\* the refresh request failed with.
C19_RefreshFailureLogsOut ==
    \A f \in Frames : \A r \in RefreshReqsOf(f) :
        (reqs[r].pc = "done" /\ reqs[r].result.kind = "err") =>
            /\ reqs[f].rfRes = reqs[r].result
            /\ reqs[f].rfAt.nll > reqs[f].rfPre.nll
            /\ Cleared(reqs[f].rfAt.st, reqs[f].rfAt.cu, reqs[f].rfAt.ia)

C19_Witness ==
    \E f \in Frames : \E r \in RefreshReqsOf(f) :
        /\ reqs[r].pc = "done"
        /\ reqs[r].result = HttpErr(403)
        /\ reqs[f].rfPre.st = [access |-> "t1", refresh |-> "r1", user |-> "u1"]
        /\ reqs[f].rfPre.ia
        /\ reqs[f].rfAt.st = EmptyStore

\* C20: when the refresh request of a refreshToken() call has succeeded, at
\* the delivery to the caller the stored access token is the one of the
\* response, the stored refresh token is the one of the response if it carries
\* one and otherwise the one stored before, and the stored user, currentUser,
\* isAuthenticated, the navigations and the logout() calls are as before the
\* response.
C20_RefreshSuccessFrame ==
    \A f \in Frames : \A r \in RefreshReqsOf(f) :
        (reqs[r].pc = "done" /\ reqs[r].result.kind = "ok") =>
            /\ reqs[f].rfRes = reqs[r].result
            /\ reqs[f].rfAt.st.access = reqs[r].result.access
            /\ reqs[f].rfAt.st.refresh =
                  IF Truthy(reqs[r].result.refresh)
                    THEN reqs[r].result.refresh
                    ELSE reqs[f].rfPre.st.refresh
            /\ reqs[f].rfAt.st.user = reqs[f].rfPre.st.user
            /\ reqs[f].rfAt.cu = reqs[f].rfPre.cu
            /\ reqs[f].rfAt.ia = reqs[f].rfPre.ia
            /\ reqs[f].rfAt.navs = reqs[f].rfPre.navs
            /\ reqs[f].rfAt.nll = reqs[f].rfPre.nll

C20_Witness ==
    \E f \in Frames : \E r \in RefreshReqsOf(f) :
        /\ reqs[r].result = OkRes("t2", NULL)
        /\ reqs[f].rfPre.st = [access |-> "t1", refresh |-> "r1", user |-> "u1"]
        /\ reqs[f].rfAt.st = [access |-> "t2", refresh |-> "r1", user |-> "u1"]
        /\ reqs[f].rfAt.cu = "u1"

-----------------------------------------------------------------------------
(* Properties of AuthService.login and AuthService.register *)

\* C15: once a login() or register() call has delivered an error to its
\* caller, the call is over with isLoading false, and the handling of the
\* failure has changed neither the Session Store, nor currentUser, nor
\* isAuthenticated, has navigated nowhere, and has delivered exactly one
\* outcome.
C15_AuthCallFailure ==
    \A f \in AuthCalls :
        reqs[f].cOut.kind = "err" =>
            /\ ~reqs[f].cPost.il
            /\ reqs[f].cPost.st = reqs[f].cPre.st
            /\ reqs[f].cPost.cu = reqs[f].cPre.cu
            /\ reqs[f].cPost.ia = reqs[f].cPre.ia
            /\ reqs[f].cPost.navs = reqs[f].cPre.navs
            /\ reqs[f].nDelivered = 1

\* the landing route the specification gives for a role
LandingRoute(r) ==
    IF r = "customer" THEN "/customer/dashboard"
    ELSE IF r = "cook" THEN "/cook/dashboard"
    ELSE IF r = "delivery_guy" THEN "/delivery/dashboard"
    ELSE IF r = "admin" THEN "/admin/dashboard"
    ELSE "/"

\* C16: once a login() or register() call has delivered a response, the one
\* step that handled it has stored the response's access token, refresh token
\* and user, set currentUser to that user and isAuthenticated to true, left
\* isLoading false, and made exactly one navigation, to the landing route of
\* the user's role; navigateToRoleDashboard goes to that route for each of the
\* four roles and to '/' for any other role.
C16_AuthCallSuccess ==
    /\ \A f \in AuthCalls :
          reqs[f].cOut.kind = "ok" =>
              /\ reqs[f].cPost.st = [access  |-> reqs[f].cOut.access,
                                     refresh |-> reqs[f].cOut.refresh,
                                     user    |-> reqs[f].cOut.user]
              /\ reqs[f].cPost.cu = reqs[f].cOut.user
              /\ reqs[f].cPost.ia
              /\ ~reqs[f].cPost.il
              /\ reqs[f].cPost.navs =
                    Append(reqs[f].cPre.navs, LandingRoute(role(reqs[f].cOut.user)))
              /\ reqs[f].cPost.nll = reqs[f].cPre.nll
    /\ \A u \in AuthUsers :
          navigateToRoleDashboard(W, role(u)).navs = Append(navs, LandingRoute(role(u)))

C16_Witness ==
    /\ \E f \in AuthCalls :
          /\ reqs[f].kind = "login"
          /\ reqs[f].cOut = AuthRes("t3", "r3", "delivery_guy")
          /\ reqs[f].cPre.st = EmptyStore
          /\ reqs[f].cPost.navs = <<"/delivery/dashboard">>
    /\ \E f \in AuthCalls :
          /\ reqs[f].kind = "register"
          /\ reqs[f].cOut = AuthRes("t3", "r3", "guest")
          /\ reqs[f].cPost.navs[Len(reqs[f].cPost.navs)] = "/"
    /\ storage.access = "t3"
    /\ isAuthenticated
    /\ ~isLoading

\* C17: while a login() or register() call has not yet delivered its response
\* or error, isLoading is true: it is false only when no such call is in
\* flight.
C17_BusyWhileInFlight ==
    (\E f \in AuthCalls : reqs[f].cOut = NoRes) => isLoading

-----------------------------------------------------------------------------
(* Properties of the interceptor chain *)

Enhanced  == SelectSeq(rLog, LAMBDA e : e.ev = "enhanced")
Toasts    == SelectSeq(rLog, LAMBDA e : e.ev = "toast")
Navigates == SelectSeq(rLog, LAMBDA e : e.ev = "navigate")
Fails401  == SelectSeq(rLog, LAMBDA e : e.ev = "fail" /\ e.status = 401)

\* the URL is the refresh endpoint: it contains '/auth/refresh' or '/refresh-token'
RefreshEndpoint(url) ==
    Includes(url, <<"/auth", "/refresh">>) \/ Includes(url, <<"/refresh", "-token">>)

\* C11: one logical request is retried at most 3 times, whatever the failure
\* statuses, also when authInterceptor re-issues it after a token refresh and
\* the re-issued request enters the retry stage again.
C11_RetriesBounded == Len(Timers) <= 3

\* C12: for one GET handled by the chain retry -> logging -> error
\* classification, at most one EnhancedError is constructed and at most one
\* notification is shown, and only for the failure that is delivered to the
\* caller: a failed attempt that is retried produces neither.
C12_OneEnhancedError ==
    (chain = ChainOfTest /\ rReq.method = "GET") =>
        /\ Len(Enhanced) <= 1
        /\ Len(Toasts) <= 1
        /\ (Len(Enhanced) > 0 \/ Len(Toasts) > 0) =>
              /\ rPc = "done"
              /\ rOutcomes = <<Outcome("error", Enhanced[1].status)>>

\* C13: when a request that is not the refresh endpoint fails with 401, the
\* Session Store read by StorageService holds no access token, no refresh
\* token and no user once errorInterceptor has handled the failure, and one
\* deferred navigation per such failure goes to '/login' with returnUrl equal
\* to Router.url at that moment.
C13_UnauthorizedClears ==
    ~RefreshEndpoint(cReq.url) =>
        /\ \A i \in 1..Len(rLog) :
              (rLog[i].ev = "rethrow" /\ rLog[i].status = 401) =>
                  rLog[i].st = EmptyStore
        /\ Len(Navigates) + Len(cDeferred) = Len(Fails401)
        /\ \A i \in 1..Len(Navigates) :
              /\ Navigates[i].path = "/login"
              /\ Navigates[i].returnUrl = Navigates[i].url

\* C14: when a request to the refresh endpoint fails with 401, errorInterceptor
\* shows no notification, leaves the Session Store as it is and defers no
\* navigation: the failure is followed at once by the construction of the
\* EnhancedError with status 401 and its re-throw, and where no other stage
\* handles the error that is what the caller receives.
C14_RefreshEndpoint401 ==
    RefreshEndpoint(cReq.url) =>
        /\ \A i \in 1..Len(rLog) :
              (rLog[i].ev = "fail" /\ rLog[i].status = 401) =>
                  /\ rLog[i+1].ev = "enhanced" /\ rLog[i+1].status = 401
                  /\ rLog[i+2].ev = "rethrow" /\ rLog[i+2].status = 401
                  /\ rLog[i+2].st = rLog[i].st
        /\ \A i \in 1..Len(Toasts) : Toasts[i].status # 401
        /\ cDeferred = <<>>
        /\ Len(Navigates) = 0
        /\ (chain = ChainOfTest /\ rPc = "done" /\ Len(Fails401) > 0) =>
              rOutcomes = <<Outcome("error", 401)>>

C14_Witness ==
    /\ chain = ChainOfTest
    /\ cReq = [url |-> RefreshUrl, noToast |-> FALSE]
    /\ rReq.method = "GET"
    /\ Len(Fails) = 2
    /\ Fails[1].status = 500
    /\ Fails[2].status = 401
    /\ Len(Toasts) = 1
    /\ rOutcomes = <<Outcome("error", 401)>>
    /\ storage = [access |-> "t1", refresh |-> "r1", user |-> "u1"]

-----------------------------------------------------------------------------
(* Properties of the session state, the guards and the error branches *)

\* the calls of getCurrentUserProfile() and updateProfile() that succeeded
ProfileDone ==
    {f \in 1..Len(reqs) : /\ reqs[f].kind \in {"getProfile", "updateProfile"}
                          /\ reqs[f].cOut.kind = "ok"}

\* C21: in every state AuthService leaves behind (construction, login success,
\* mock login, logout, profile fetch or update, in any interleaving), the
\* currentUser signal equals the user persisted in storage, and isAuthenticated
\* is true exactly when currentUser is not null.
C21_SessionConsistent ==
    /\ currentUser = storage.user
    /\ isAuthenticated <=> currentUser # NULL

\* a profile call succeeded after a logout emptied the session, and the user it
\* returned is now both the signal and the stored user
C21_Witness ==
    \E f \in ProfileDone :
        /\ reqs[f].cPre.cu = NULL
        /\ reqs[f].cPost.cu = "admin"
        /\ currentUser = "admin"
        /\ storage.user = "admin"
        /\ isAuthenticated
        /\ Len(logoutLog) > 0

\* the calls of authInterceptor that have run, on a request that is not on the
\* allow-list
Intercepted ==
    /\ ret.done
    /\ call.fn = "authInterceptor"
    /\ ~skipAuth(call.req.url)

\* C22: for a request that is not allow-listed, a non-empty stored token makes
\* authInterceptor forward a request with Authorization = Bearer <token> whose
\* method, URL, body and other headers are the original's; a null or empty
\* token makes it forward the request itself, without Authorization; the
\* caller's request is the same afterwards.
C22_TokenAttached ==
    Intercepted =>
        /\ Truthy(call.token) =>
             /\ ret.next.headers["Authorization"] = <<"Bearer", call.token>>
             /\ ret.next.method = call.req.method
             /\ ret.next.url = call.req.url
             /\ ret.next.body = call.req.body
             /\ \A h \in HeaderNames \ {"Authorization"} :
                    ret.next.headers[h] = call.req.headers[h]
        /\ call.token \in {NULL, ""} =>
             /\ ret.next = call.req
             /\ ret.next.headers["Authorization"] = NULL
        /\ ret.req = call.req
        /\ call.req.headers["Authorization"] = NULL

\* a POST with a body and an X-No-Toast header went out with the stored token
C22_Witness ==
    /\ Intercepted
    /\ call.token = "t1"
    /\ call.req.method = "POST"
    /\ call.req.body = "body"
    /\ call.req.headers["X-No-Toast"] = "true"
    /\ ret.next.headers["Authorization"] = <<"Bearer", "t1">>
    /\ ret.next.headers["X-No-Toast"] = "true"

\* failure statuses other than 401: forbidden, not found, server error, and
\* the 0 of a network failure
PassStatuses == {403, 404, 500, 0}

\* what the catchError of authInterceptor leaves of request f when its first
\* attempt fails with status s
PassedThrough(fr, s) ==
    /\ fr.pc = "done"
    /\ fr.result = HttpErr(s)
    /\ fr.nRefresh = 0
    /\ fr.nReissue = 0
    /\ fr.nLogout = 0

\* C23: a failure with a status other than 401 (403, 404, 500, 0) passes
\* through authInterceptor unchanged: the request settles with that same
\* error, and its handling calls neither refreshToken() nor logout(). Stated
\* for the failures that have arrived and for every such failure of a request
\* that is still waiting for its first answer; when the request is not the
\* refresh request of AuthService, whose failure AuthService itself answers with
\* logout(), the handling sends no request and logs nobody out at all.
C23_OtherFailuresPass ==
    \A f \in Frames :
        /\ reqs[f].res1 \in PassStatuses => PassedThrough(reqs[f], reqs[f].res1)
        /\ reqs[f].pc = "first" /\ ~reqs[f].skip =>
             \A s \in PassStatuses :
                 LET w == catchErrorFirst([W EXCEPT !.reqs[f].res1 = s], f, HttpErr(s))
                 IN  /\ PassedThrough(w.reqs[f], s)
                     /\ reqs[f].kind # "refresh" =>
                          /\ Len(w.reqs) = Len(reqs)
                          /\ Len(w.ll) = Len(logoutLog)

\* a request that carried the stored token failed with 403 and settled with
\* that error; the session is as it was when the request was sent
C23_Witness ==
    \E f \in Frames :
        /\ reqs[f].kind = "user"
        /\ ~reqs[f].skip
        /\ reqs[f].auth1 = "t1"
        /\ reqs[f].res1 = 403
        /\ reqs[f].result = HttpErr(403)
        /\ storage = reqs[f].stAtSend
        /\ logoutLog = <<>>

\* the guard g has run
Ran(g) == ret.done /\ call.fn = g

\* C24: authGuard allows the navigation exactly when isAuthenticated is true;
\* otherwise it returns the UrlTree of /auth/login whose returnUrl is the
\* attempted URL, also when that URL is empty.
C24_AuthGuard ==
    Ran("authGuard") =>
        /\ ret.result.allow <=> call.session.ia
        /\ ~call.session.ia =>
             /\ ret.result.path = "/auth/login"
             /\ ret.result.returnUrl = call.url

\* without a session, a navigation to the empty URL was sent to /auth/login
\* with returnUrl = ''
C24_Witness ==
    /\ Ran("authGuard")
    /\ ~call.session.ia
    /\ call.url = ""
    /\ ret.result = [allow |-> FALSE, path |-> "/auth/login", returnUrl |-> ""]

\* the role set a guard requires: route.data.roles for roleGuard (none when
\* absent), the one role of a fixed-role guard
RequiredRoles ==
    IF call.fn = "roleGuard"
      THEN (IF call.data.hasRoles THEN call.data.roles ELSE {})
      ELSE {r \in UserRoles : \/ call.fn = "customerGuard" /\ r = "customer"
                              \/ call.fn = "cookGuard" /\ r = "cook"
                              \/ call.fn = "deliveryGuard" /\ r = "delivery_guy"
                              \/ call.fn = "adminGuard" /\ r = "admin"}

\* C25: roleGuard and the fixed-role guards check authentication first: without
\* a session the answer is /auth/login with returnUrl = the requested URL, never
\* /unauthorized; with a session the navigation is allowed exactly when the
\* required role set is empty or absent (roleGuard) or contains the user's
\* role, and is otherwise redirected to /unauthorized.
C25_RoleGuards ==
    (ret.done /\ call.fn \in {"roleGuard"} \cup FixedRoleGuards) =>
        /\ ~call.session.ia =>
             ret.result = [allow |-> FALSE, path |-> "/auth/login", returnUrl |-> call.url]
        /\ call.session.ia =>
             /\ ret.result.allow <=>
                  \/ call.fn = "roleGuard" /\ RequiredRoles = {}
                  \/ call.session.cu \in RequiredRoles
             /\ ~ret.result.allow => ret.result.path = "/unauthorized"

\* a cook at the customer-only guard was sent to /unauthorized
C25_Witness ==
    /\ Ran("customerGuard")
    /\ call.session = [ia |-> TRUE, cu |-> "cook"]
    /\ ret.result.path = "/unauthorized"

\* the two guards of the pages for visitors, on the session and route of the call
GuestResult == guestGuard(call.session.ia, call.session.cu)
AutoLoginResult == autoLoginGuard(call.session.ia, call.session.cu)

\* C26: guestGuard and autoLoginGuard allow the navigation exactly when there is
\* no session; with a session both redirect to /<role>/dashboard for the roles
\* customer, cook, delivery_guy and admin, and they differ only for a role that
\* is missing or unrecognised: guestGuard redirects to '/', autoLoginGuard to
\* /customer/dashboard.
C26_GuestGuards ==
    (ret.done /\ call.fn \in {"guestGuard", "autoLoginGuard"}) =>
        /\ ret.result = (IF call.fn = "guestGuard" THEN GuestResult ELSE AutoLoginResult)
        /\ ret.result.allow <=> ~call.session.ia
        /\ GuestResult.allow <=> AutoLoginResult.allow
        /\ (call.session.ia /\ call.session.cu \in UserRoles) =>
             /\ ret.result.path = "/" \o call.session.cu \o "/dashboard"
             /\ GuestResult = AutoLoginResult
        /\ (call.session.ia /\ call.session.cu \notin UserRoles) =>
             /\ GuestResult.path = "/"
             /\ AutoLoginResult.path = "/customer/dashboard"

\* a user without a role was sent to /customer/dashboard by autoLoginGuard
C26_Witness ==
    /\ Ran("autoLoginGuard")
    /\ call.session = [ia |-> TRUE, cu |-> "norole"]
    /\ ret.result = [allow |-> FALSE, path |-> "/customer/dashboard", returnUrl |-> NULL]

\* errorInterceptor has handled the failure call.error of the request call.req
Caught == ret.done /\ call.fn = "errorInterceptor"

\* the notifications shown by the call
Shown == SelectSeq(ret.evs, LAMBDA e : e.ev = "toast")

\* the navigations of the call: those made and those still deferred
Redirects == navs \o ret.defer

\* C27: for every failure that reaches errorInterceptor, whatever the status,
\* the X-No-Toast flag and the branch taken, the subscriber receives an error,
\* and it is the EnhancedError whose status is the response's and whose url and
\* method are the request's.
C27_EnhancedErrorThrown ==
    Caught =>
        /\ ret.outcome.kind = "error"
        /\ ret.outcome.error.status = call.error.status
        /\ ret.outcome.error.url = call.req.url
        /\ ret.outcome.error.method = call.req.method

\* a POST with X-No-Toast failed with 422 and the subscriber received the
\* EnhancedError of status 422
C27_Witness ==
    /\ Caught
    /\ call.req = [method |-> "POST", url |-> <<"/api", "/test">>, noToast |-> TRUE]
    /\ call.error.status = 422
    /\ ret.outcome.kind = "error"
    /\ ret.outcome.error.status = 422
    /\ ret.outcome.error.method = "POST"

\* the messages of a field -> messages map, each with its field, in order
RECURSIVE FieldMessages(_)
FieldMessages(entries) ==
    IF entries = <<>> THEN <<>>
    ELSE LET e == Head(entries)
             msgs == IF e.isArray THEN e.value ELSE <<e.value[1]>>
         IN  [i \in 1..Len(msgs) |-> <<e.field, msgs[i]>>] \o FieldMessages(Tail(entries))

C29_Forbidden ==
    (Caught /\ call.error.status = 403) =>
        /\ Len(Shown) = (IF call.req.noToast THEN 0 ELSE 1)
        /\ Redirects = <<"/unauthorized">>
        /\ ret.st = call.st
        /\ \A i \in 1..Len(ret.evs) : ret.evs[i].ev # "clear"
        /\ \A i \in 1..Len(Redirects) : Redirects[i] \notin {"/login", "/auth/login"}

\* a 403 showed its notification and the deferred navigation has run
C29_Witness ==
    /\ Caught
    /\ call.error.status = 403
    /\ Len(Shown) = 1
    /\ ret.defer = <<>>
    /\ navs = <<"/unauthorized">>

\* the request of the call is not the refresh endpoint
NotRefresh(url) ==
    ~Includes(url, <<"/auth", "/refresh">>) /\ ~Includes(url, <<"/refresh", "-token">>)

\* C30: when the request carries X-No-Toast, errorInterceptor shows no
\* notification for any status, and the other effects are there: on a 401 of a
\* request that is not the refresh endpoint the Session Store is cleared and the
\* login redirect is deferred, on a 403 the redirect to /unauthorized is
\* deferred, and the EnhancedError is thrown.
C30_NoToast ==
    (Caught /\ call.req.noToast) =>
        /\ Shown = <<>>
        /\ (call.error.status = 401 /\ NotRefresh(call.req.url)) =>
             /\ ret.st = EmptyStore
             /\ Redirects = <<"/login">>
        /\ call.error.status = 403 => Redirects = <<"/unauthorized">>
        /\ ret.outcome = [kind |-> "error",
                          error |-> createEnhancedError(call.error, call.req)]

\* With X-No-Toast the call does what it does without the flag, the
\* notifications excepted.
NoToastOnlyHidesToasts ==
    (Caught /\ call.req.noToast) =>
        LET req0 == [call.req EXCEPT !.noToast = FALSE]
            h0 == handleHttpError(call.st, req0, extractConfig(req0), call.error)
        IN  /\ Shown = <<>>
            /\ ret.evs = SelectSeq(h0.evs, LAMBDA e : e.ev # "toast")
            /\ ret.st = h0.st
            /\ Redirects = h0.defer
            /\ (call.error.status = 401 /\ NotRefresh(call.req.url)) =>
                 /\ Len(ret.evs) = 1 /\ ret.evs[1].ev = "clear"
                 /\ Redirects = <<"/login">>
            /\ call.error.status = 403 => Redirects = <<"/unauthorized">>
            /\ ret.outcome = [kind |-> "error",
                              error |-> createEnhancedError(call.error, call.req)]

-----------------------------------------------------------------------------
(* Properties of loggingInterceptor, of the session and of the routes *)

\* the lines of loggingInterceptor with this name, in order
Logged(ev) == SelectSeq(rLog, LAMBDA e : e.ev = ev)

\* C31: loggingInterceptor writes the method and URL of every request it
\* dispatches at once, before the attempt settles, for attempts that fail as
\* for attempts that succeed; and when an attempt settles the next line it
\* writes is the success, after a response, or the failure, after the error
\* errorInterceptor re-throws.
C31_LoggedAtDispatch ==
    /\ \A i \in 1..Len(rLog) :
          /\ rLog[i].ev = "send" =>
                /\ i < Len(rLog)
                /\ rLog[i+1].ev = "logRequest"
                /\ rLog[i+1].method = rReq.method
                /\ rLog[i+1].url = cReq.url
          /\ rLog[i].ev = "ok" =>
                /\ i < Len(rLog)
                /\ rLog[i+1].ev = "logSuccess"
          /\ rLog[i].ev = "rethrow" =>
                /\ i < Len(rLog)
                /\ rLog[i+1].ev = "logFailure"
                /\ rLog[i+1].status = rLog[i].status
    /\ Len(Logged("logRequest")) = Len(Sends)
    /\ Len(Logged("logSuccess")) + Len(Logged("logFailure")) + rInflight = Len(Sends)

\* a GET failed with 500, was sent again and succeeded: two request lines, one
\* failure line, one success line
C31_Witness ==
    /\ rReq.method = "GET"
    /\ rPc = "done"
    /\ Len(Logged("logRequest")) = 2
    /\ Len(Logged("logFailure")) = 1
    /\ Logged("logFailure")[1].status = 500
    /\ Len(Logged("logSuccess")) = 1

\* the token of the call decodes: it has a second segment, which is base64 of
\* the JSON text of an object
Decodes(token) == token.segments >= 2 /\ token.base64 /\ token.json = "object"

C34_AuthenticatedHasToken ==
    isAuthenticated => Truthy(storage.access)

\* the /logout requests: each was posted by a logout() that has completed
LogoutFrames == {f \in 1..Len(reqs) : reqs[f].kind = "logout"}

\* a login or registration started after the /logout request l has succeeded
LoginSince(l) ==
    \E g \in 1..Len(reqs) :
        /\ g > l
        /\ reqs[g].kind \in {"login", "register"}
        /\ reqs[g].cOut.kind = "ok"

\* a mock login has run after the last logout()
MockLoginSince ==
    \E i \in 1..Len(navs) :
        /\ navs[i] \in {roleRoutes("customer"), roleRoutes("cook")}
        /\ \A j \in i..Len(navs) : navs[j] # "/login"

\* C35: once logout() has completed, and until a login or registration started
\* after it succeeds, the Session Store is empty and isAuthenticated is false:
\* no response to a request started before the logout writes a token or a user
\* back.
C35_NothingWrittenBackAfterLogout ==
    \A l \in LogoutFrames :
        (~LoginSince(l) /\ ~MockLoginSince) =>
            /\ storage = EmptyStore
            /\ ~isAuthenticated

\* the refresh-token requests that are on the network
RefreshInFlight ==
    {f \in 1..Len(reqs) : /\ reqs[f].kind = "refresh"
                          /\ reqs[f].pc \in {"first", "second"}}

\* C36: at any time at most one refresh-token request is in flight, also when
\* several requests that are not on the allow-list fail with 401 one after the
\* other while the first refresh is still unanswered.
C36_SingleRefresh ==
    Cardinality(RefreshInFlight) <= 1

\* the request failed with 401, authInterceptor refreshed the token and sent
\* the request again, and the caller received the success of that second pass
Recovered ==
    /\ HasAuth
    /\ cPass = 2
    /\ rOutcomes = <<Outcome("success", 200)>>

\* C37: with authInterceptor outermost and errorInterceptor innermost, when the
\* 401 of a request is recovered by a refresh and a re-issue that succeeds, the
\* error stage has not called clearAuthentication for the request, and no
\* navigation to the login screen is pending or has fired.
C37_RecoveredWithoutLogout ==
    Recovered =>
        /\ \A i \in 1..Len(rLog) : rLog[i].ev # "clear"
        /\ cDeferred = <<>>
        /\ Len(Navigates) = 0
        /\ \A i \in 1..Len(navs) : navs[i] # "/login"

\* the route AuthService navigates to after a successful login of a user with
\* role r
LoginLanding(r) == navigateToRoleDashboard([navs |-> <<>>], r).navs[1]

\* C38: for each of the roles customer, cook, delivery_guy and admin, the route
\* guestGuard and autoLoginGuard redirect a signed-in user of that role to is
\* the route AuthService navigates to after a successful login of that user.
C38_SameLandingRoute ==
    (/\ ret.done
     /\ call.fn \in {"guestGuard", "autoLoginGuard"}
     /\ call.session.ia
     /\ call.session.cu \in UserRoles) =>
        ret.result.path = LoginLanding(role(call.session.cu))

\* the guards that send a visitor without a session to the login screen
LoginGuards == {"authGuard", "roleGuard"} \cup FixedRoleGuards

\* C39: every navigation to the login screen targets the login route of the
\* route table, /auth/login: the redirect of authGuard and of the role guards
\* for a visitor without a session, the navigation of logout(), and the
\* navigation the 401 branch of errorInterceptor defers.
C39_OneLoginRoute ==
    /\ (ret.done /\ call.fn \in LoginGuards /\ ~call.session.ia) =>
          ret.result.path = LoginRoute
    /\ Ran("logout") =>
          \A i \in 1..Len(ret.w.navs) : ret.w.navs[i] = LoginRoute
    /\ (Caught /\ call.error.status = 401) =>
          \A i \in 1..Len(Redirects) : Redirects[i] = LoginRoute

\* the navigation has ended
Settled == call.fn = "navigate" /\ ret.done

\* C40: for every session (none, or a user of any role, also one that is
\* unrecognised or missing) and every URL of the route table, following the
\* guards' redirects ends within MaxHops redirects, and it ends on a route of
\* the table whose guards all allow.
C40_RedirectsSettleOnRoute ==
    call.fn = "navigate" =>
        /\ ret.hops < MaxHops
        /\ ret.done => (ret.outcome = "activated" /\ ret.url \in RouteUrls)

\* The guards form no redirect cycle: every navigation ends after at most three
\* redirects, on an activated route or on a URL the table has no route for.
RedirectsEnd ==
    call.fn = "navigate" =>
        /\ ret.hops <= 3
        /\ ~ret.done => ENABLED RoutesNext

====
